---- MODULE Spec2Model ----
(***************************************************************************)
(* Sliding median window (JensT1999/Sliding-Median-Window).                *)
(*                                                                         *)
(* One behaviour of the model is one call of the public entry points of    *)
(* src/src/medianwindow_api.c: the dispatcher, the validation of           *)
(* window_helpers.c, the two loops of median.c, the dual 8-ary heap of      *)
(* median_window.c and the sorting/median networks of tiny_medianwindow.c. *)
(*                                                                         *)
(* C arrays are functions over 0..n-1, pointers into the node arena are    *)
(* node indices, and a cell the program has not written yet holds          *)
(* Indeterminate, which no comparison or arithmetic of the model accepts.  *)
(***************************************************************************)
EXTENDS Integers, Sequences, FiniteSets, TLC

(***************************************************************************)
(* Bounds of the model.                                                    *)
(***************************************************************************)
\* longest input of the runs that draw samples from Values
MaxLen == 6
\* largest step of every run
MaxStep == 2
\* longest input of the runs around the dispatcher's threshold
LongLen == 10

(***************************************************************************)
(* IEEE-754 doubles.  A finite sample is an even integer, so that the mean *)
(* of two samples is exact as it is for the doubles they stand for.        *)
(***************************************************************************)
NaN == 9999
PInf == 2000
NInf == -2000
DBL_MAX == 1000

isnan(v) == v = NaN

IS_INFINITY(v) == (v = PInf) \/ (v = NInf)

\* a > b, a < b, a >= b, a <= b of C: false as soon as an operand is NaN
Gt(a, b) == (~isnan(a)) /\ (~isnan(b)) /\ (a > b)

Lt(a, b) == (~isnan(a)) /\ (~isnan(b)) /\ (a < b)

Ge(a, b) == (~isnan(a)) /\ (~isnan(b)) /\ (a >= b)

Le(a, b) == (~isnan(a)) /\ (~isnan(b)) /\ (a <= b)

\* a + b.  DBL_MAX and -DBL_MAX are the only huge samples of the model: the
\* sum of two of the same sign overflows to that infinity, and a huge addend
\* absorbs an ordinary one.
Add(a, b) ==
    IF isnan(a) \/ isnan(b) THEN NaN
    ELSE IF IS_INFINITY(a) THEN (IF IS_INFINITY(b) /\ (b # a) THEN NaN ELSE a)
    ELSE IF IS_INFINITY(b) THEN b
    ELSE IF (a + b) > DBL_MAX THEN (IF a = b THEN PInf ELSE DBL_MAX)
    ELSE IF (a + b) < (0 - DBL_MAX) THEN (IF a = b THEN NInf ELSE 0 - DBL_MAX)
    ELSE a + b

\* x / 2
Half(x) == IF isnan(x) \/ IS_INFINITY(x) THEN x ELSE x \div 2

\* (a + b) / 2
Mean(a, b) == Half(Add(a, b))

Indeterminate == "indeterminate"

NULL == -1


(***************************************************************************)
(* median_window.h / median_window.c: the dual 8-ary heap.                 *)
(*                                                                         *)
(* A MedianWindow is a record with the fields of the struct; nodes is the  *)
(* arena (node index -> HeapNode), maxHeap and minHeap map the cells of    *)
(* the two pointer arrays that have been written to node indices: the      *)
(* cells below the heap's length are live, a cell at or above it keeps the *)
(* node it was last given.  emptyRebalance is not a field of the struct:   *)
(* it records that heaps_rebalance has run on an empty heap.  Nor is       *)
(* undefined: it records that the code has indexed a pointer array at      *)
(* length - 1 with a length of 0, after which the behaviour of the call    *)
(* is undefined and is modelled no further; the same holds when the code   *)
(* reads a cell that no pointer was ever stored in.  outside records that  *)
(* a node pointer has been stored behind the last cell of a pointer array: *)
(* the arrays and the arena are one block (max_heap, min_heap, nodes), so  *)
(* the store lands in the next array, and the call is modelled up to the   *)
(* end of that step.  aliasedStore is the tag that                         *)
(* is left on a node when heaps_rebalance swaps it with itself: its two    *)
(* root pointers are restrict-qualified, so when both refer to one node    *)
(* the order in which the two stores to type reach memory is not fixed by  *)
(* the language; the statements are in the order MAX_HEAP, MIN_HEAP.       *)
(* rebalanced is no field of the struct either: it lists the calls of      *)
(* heaps_rebalance made during the last medianwindow_addNew or             *)
(* medianwindow_updateOld, each with the two roots and their values and    *)
(* tags as the call found them and with the root cells and the tags as     *)
(* lines 382-385 left them.                                                *)
(***************************************************************************)
K_ARY_HEAP_CHILDREN == 8

HEAP_PARENT_FORMULAR(position) == (position - 1) \div K_ARY_HEAP_CHILDREN

HEAP_CHILDREN_FORMULAR(position, num_child) == (position * K_ARY_HEAP_CHILDREN) + num_child

SPC_NUMBER_INPUT_POSITION == -1

HeapNode ==
    [value |-> Indeterminate, position |-> Indeterminate, next |-> Indeterminate,
     type |-> Indeterminate, isNaN |-> Indeterminate]

\* heap[position] = node, on a pointer array whose live cells are DOMAIN heap
SetCell(heap, position, node) ==
    [j \in (DOMAIN heap) \cup {position} |-> IF j = position THEN node ELSE heap[j]]

\* a decrement of the heap's length: the cells stay as they are, those at
\* newLength and above are no longer live
Shrink(heap, newLength) == heap

\* memory is what the block the caller allocated holds in each of its node
\* cells: the function writes the fields of the window and no node.
medianwindow_initialize(memory, windowSize, steps, ignoreNaNWindows) ==
    [windowSize |-> windowSize,
     currentSize |-> 0,
     steps |-> steps,
     stepDistance |-> 0,
     maxHeap |-> [j \in {} |-> NULL],
     maxHeapLength |-> 0,
     minHeap |-> [j \in {} |-> NULL],
     minHeapLength |-> 0,
     tail |-> NULL,
     head |-> NULL,
     nodes |-> [n \in 0..(windowSize - 1) |-> memory],
     spcNumbers |-> 0,
     ignoreNaNWindows |-> ignoreNaNWindows,
     emptyRebalance |-> FALSE,
     undefined |-> FALSE,
     outside |-> FALSE,
     aliasedStore |-> "MIN_HEAP",
     rebalanced |-> <<>>]

\* the capacities medianwindow_initialize reserves for the two pointer arrays
MaxHeapCapacity(windowSize) ==
    IF (windowSize % 2) = 0 THEN windowSize \div 2 ELSE (windowSize \div 2) + 1

MinHeapCapacity(windowSize) == windowSize \div 2

\* nodes[0].value after a node pointer has been stored over it: the bits of
\* an address read as a double are a positive subnormal number, below every
\* positive sample
PointerBits == 1

\* window->minHeap[position] = node; the cell behind the last one of min_heap
\* is the first word of nodes[0], its value
StoreMinHeapCell(w, position, node) ==
    IF position < MinHeapCapacity(w.windowSize)
    THEN [w EXCEPT !.minHeap = SetCell(@, position, node)]
    ELSE IF position = MinHeapCapacity(w.windowSize)
    THEN [w EXCEPT !.minHeap = SetCell(@, position, node),
                   !.nodes[0].value = PointerBits,
                   !.outside = TRUE]
    ELSE [w EXCEPT !.undefined = TRUE]

\* window->maxHeap[position] = node; the cells behind the last one of max_heap
\* are those of min_heap
StoreMaxHeapCell(w, position, node) ==
    IF position < MaxHeapCapacity(w.windowSize)
    THEN [w EXCEPT !.maxHeap = SetCell(@, position, node)]
    ELSE [StoreMinHeapCell(w, position - MaxHeapCapacity(w.windowSize), node)
          EXCEPT !.maxHeap = SetCell(@, position, node), !.outside = TRUE]

heap_calculate_children(heapLength, position) ==
    LET minChildPosition == HEAP_CHILDREN_FORMULAR(position, 1)
        maxChildPosition == HEAP_CHILDREN_FORMULAR(position, K_ARY_HEAP_CHILDREN)
    IN  IF minChildPosition >= heapLength THEN 0
        ELSE IF maxChildPosition >= heapLength THEN heapLength - minChildPosition
        ELSE (maxChildPosition - minChildPosition) + 1

heaps_can_rebalance(w) == (w.maxHeapLength > 0) /\ (w.minHeapLength > 0)

\* a variant that moves the node to the NaN side without counting it
medianwindow_put_spc_number_uncounted(w, targetNode) ==
    [w EXCEPT !.nodes[targetNode].position = SPC_NUMBER_INPUT_POSITION,
              !.nodes[targetNode].type = "SPC_NUMBER",
              !.nodes[targetNode].isNaN = TRUE]

medianwindow_put_spc_number(w, targetNode) ==
    [w EXCEPT !.nodes[targetNode].position = SPC_NUMBER_INPUT_POSITION,
              !.nodes[targetNode].type = "SPC_NUMBER",
              !.nodes[targetNode].isNaN = TRUE,
              !.spcNumbers = @ + 1]

(***************************************************************************)
(* The max-heap.  maxheap_put returns the window; the position it returns  *)
(* in C is the heap's length before the call.                              *)
(***************************************************************************)
\* a faulty variant of maxheap_put: isNaN keeps what the node's memory held
maxheap_put_flag_unwritten(w, targetNode) ==
    [w EXCEPT !.nodes[targetNode].position = w.maxHeapLength,
              !.nodes[targetNode].type = "MAX_HEAP",
              !.maxHeap = SetCell(w.maxHeap, w.maxHeapLength, targetNode),
              !.maxHeapLength = @ + 1]

maxheap_put(w, targetNode) ==
    [w EXCEPT !.nodes[targetNode].position = w.maxHeapLength,
              !.nodes[targetNode].type = "MAX_HEAP",
              !.nodes[targetNode].isNaN = FALSE,
              !.maxHeap = SetCell(w.maxHeap, w.maxHeapLength, targetNode),
              !.maxHeapLength = @ + 1]

RECURSIVE maxheap_heapifyUp_loop(_, _, _)
maxheap_heapifyUp_loop(w, targetNode, position) ==
    LET parentPosition == HEAP_PARENT_FORMULAR(position)
        parentNode == w.maxHeap[parentPosition]
    IN  IF (position > 0) /\ ~Le(w.nodes[targetNode].value, w.nodes[parentNode].value)
        THEN maxheap_heapifyUp_loop(
                 [w EXCEPT !.nodes[parentNode].position = position,
                           !.maxHeap[position] = parentNode],
                 targetNode, parentPosition)
        ELSE [w EXCEPT !.nodes[targetNode].position = position,
                       !.maxHeap[position] = targetNode]

maxheap_heapifyUp(w, position) == maxheap_heapifyUp_loop(w, w.maxHeap[position], position)

\* the switch of maxheap_largestChild entered at `case c`, falling through to case 0
RECURSIVE maxheap_largestChild_case(_, _, _, _)
maxheap_largestChild_case(w, minChildPosition, c, position) ==
    IF c = 0 THEN position
    ELSE LET child == minChildPosition + (c - 1)
         IN  maxheap_largestChild_case(w, minChildPosition, c - 1,
                 IF Gt(w.nodes[w.maxHeap[child]].value, w.nodes[w.maxHeap[position]].value)
                 THEN child ELSE position)

maxheap_largestChild(w, heapLength, position) ==
    maxheap_largestChild_case(w, HEAP_CHILDREN_FORMULAR(position, 1),
        heap_calculate_children(heapLength, position), position)

RECURSIVE maxheap_heapifyDown(_, _, _)
maxheap_heapifyDown(w, heapLength, position) ==
    LET target == maxheap_largestChild(w, heapLength, position)
        positionNode == w.maxHeap[position]
        childNode == w.maxHeap[target]
    IN  IF target # position
        THEN maxheap_heapifyDown(
                 [w EXCEPT !.nodes[positionNode].position = target,
                           !.maxHeap[target] = positionNode,
                           !.nodes[childNode].position = position,
                           !.maxHeap[position] = childNode],
                 heapLength, target)
        ELSE w

(***************************************************************************)
(* The min-heap.                                                           *)
(***************************************************************************)
minheap_put(w, targetNode) ==
    [w EXCEPT !.nodes[targetNode].position = w.minHeapLength,
              !.nodes[targetNode].type = "MIN_HEAP",
              !.nodes[targetNode].isNaN = FALSE,
              !.minHeap = SetCell(w.minHeap, w.minHeapLength, targetNode),
              !.minHeapLength = @ + 1]

RECURSIVE minheap_heapifyUp_loop(_, _, _)
minheap_heapifyUp_loop(w, targetNode, position) ==
    LET parentPosition == HEAP_PARENT_FORMULAR(position)
        parentNode == w.minHeap[parentPosition]
    IN  IF (position > 0) /\ ~Ge(w.nodes[targetNode].value, w.nodes[parentNode].value)
        THEN minheap_heapifyUp_loop(
                 [w EXCEPT !.nodes[parentNode].position = position,
                           !.minHeap[position] = parentNode],
                 targetNode, parentPosition)
        ELSE [w EXCEPT !.nodes[targetNode].position = position,
                       !.minHeap[position] = targetNode]

minheap_heapifyUp(w, position) == minheap_heapifyUp_loop(w, w.minHeap[position], position)

RECURSIVE minheap_smallestChild_case(_, _, _, _)
minheap_smallestChild_case(w, minChildPosition, c, position) ==
    IF c = 0 THEN position
    ELSE LET child == minChildPosition + (c - 1)
         IN  minheap_smallestChild_case(w, minChildPosition, c - 1,
                 IF Lt(w.nodes[w.minHeap[child]].value, w.nodes[w.minHeap[position]].value)
                 THEN child ELSE position)

minheap_smallestChild(w, heapLength, position) ==
    minheap_smallestChild_case(w, HEAP_CHILDREN_FORMULAR(position, 1),
        heap_calculate_children(heapLength, position), position)

RECURSIVE minheap_heapifyDown(_, _, _)
minheap_heapifyDown(w, heapLength, position) ==
    LET target == minheap_smallestChild(w, heapLength, position)
        positionNode == w.minHeap[position]
        childNode == w.minHeap[target]
    IN  IF target # position
        THEN minheap_heapifyDown(
                 [w EXCEPT !.nodes[positionNode].position = target,
                           !.minHeap[target] = positionNode,
                           !.nodes[childNode].position = position,
                           !.minHeap[position] = childNode],
                 heapLength, target)
        ELSE w

(***************************************************************************)
(* Cross-heap operations.                                                  *)
(***************************************************************************)
\* a faulty variant of heaps_rebalance: the roots are never exchanged
heaps_rebalance_never(w) == w

heaps_rebalance(w) ==
    LET maxHeapRoot == w.maxHeap[0]
        minHeapRoot == w.minHeap[0]
        found == [maxHeapRoot |-> maxHeapRoot,
                  minHeapRoot |-> minHeapRoot,
                  maxValue |-> w.nodes[maxHeapRoot].value,
                  minValue |-> w.nodes[minHeapRoot].value,
                  maxType |-> w.nodes[maxHeapRoot].type,
                  minType |-> w.nodes[minHeapRoot].type]
        called == [w EXCEPT !.emptyRebalance =
                                @ \/ (w.maxHeapLength = 0) \/ (w.minHeapLength = 0)]
        left(x) == [found |-> found,
                    maxHeapCell |-> x.maxHeap[0],
                    minHeapCell |-> x.minHeap[0],
                    maxTypeLeft |-> x.nodes[maxHeapRoot].type,
                    minTypeLeft |-> x.nodes[minHeapRoot].type]
    IN  IF Lt(w.nodes[maxHeapRoot].value, w.nodes[minHeapRoot].value)
        THEN [called EXCEPT !.rebalanced = Append(@, left(called))]
        ELSE LET swapped == [called EXCEPT !.maxHeap[0] = minHeapRoot,
                                           !.nodes[minHeapRoot].type = "MAX_HEAP",
                                           !.minHeap[0] = maxHeapRoot,
                                           !.nodes[maxHeapRoot].type =
                                               IF maxHeapRoot = minHeapRoot
                                               THEN w.aliasedStore ELSE "MIN_HEAP"]
                 noted == [swapped EXCEPT !.rebalanced = Append(@, left(swapped))]
                 down == maxheap_heapifyDown(noted, noted.maxHeapLength, 0)
             IN  minheap_heapifyDown(down, down.minHeapLength, 0)

RebalanceIfPossible(w) == IF heaps_can_rebalance(w) THEN heaps_rebalance(w) ELSE w

medianwindow_maxheap_root_to_minheap_root(w) ==
    LET lastNode == w.maxHeap[w.maxHeapLength - 1]
        rootNode == w.maxHeap[0]
        shrunk == [w EXCEPT !.maxHeapLength = @ - 1,
                            !.maxHeap = Shrink(w.maxHeap, w.maxHeapLength - 1)]
        popped == IF lastNode # rootNode
                  THEN maxheap_heapifyDown(
                           [shrunk EXCEPT !.nodes[lastNode].position = 0,
                                          !.maxHeap[0] = lastNode],
                           shrunk.maxHeapLength, 0)
                  ELSE shrunk
        inputPosition == popped.minHeapLength
    IN  heaps_rebalance(minheap_heapifyUp(minheap_put(popped, rootNode), inputPosition))

medianwindow_minheap_root_to_maxheap_root(w) ==
    LET lastNode == w.minHeap[w.minHeapLength - 1]
        rootNode == w.minHeap[0]
        shrunk == [w EXCEPT !.minHeapLength = @ - 1,
                            !.minHeap = Shrink(w.minHeap, w.minHeapLength - 1)]
        popped == IF lastNode # rootNode
                  THEN minheap_heapifyDown(
                           [shrunk EXCEPT !.nodes[lastNode].position = 0,
                                          !.minHeap[0] = lastNode],
                           shrunk.minHeapLength, 0)
                  ELSE shrunk
        inputPosition == popped.maxHeapLength
    IN  heaps_rebalance(maxheap_heapifyUp(maxheap_put(popped, rootNode), inputPosition))

(***************************************************************************)
(* medianwindow_addNew: the fill-up phase.                                 *)
(***************************************************************************)
medianwindow_addNew(w, value) ==
    LET inputNode == w.currentSize
        bound == [w EXCEPT !.nodes[inputNode].value = value]
        isNaN == isnan(value)
        placed ==
            IF (bound.maxHeapLength = 0) /\ (bound.spcNumbers = 0)
            THEN [(IF isNaN THEN medianwindow_put_spc_number(bound, inputNode)
                   ELSE maxheap_put(bound, inputNode))
                  EXCEPT !.tail = inputNode]
            ELSE LET put ==
                         IF bound.maxHeapLength > bound.minHeapLength
                         THEN IF isNaN THEN medianwindow_put_spc_number(bound, inputNode)
                              ELSE minheap_heapifyUp(minheap_put(bound, inputNode),
                                                     bound.minHeapLength)
                         ELSE IF isNaN THEN medianwindow_put_spc_number(bound, inputNode)
                              ELSE maxheap_heapifyUp(maxheap_put(bound, inputNode),
                                                     bound.maxHeapLength)
                     balanced == RebalanceIfPossible(put)
                 IN  [balanced EXCEPT !.nodes[balanced.head].next = inputNode]
    IN  [placed EXCEPT !.head = inputNode, !.currentSize = @ + 1]

(***************************************************************************)
(* medianwindow_updateOld: the steady state.                               *)
(***************************************************************************)
\* lines 143-171: the expiring node leaves its heap when the new sample is NaN.
\* The result carries the window and the locals newValue, replaced and removed.
UpdateOld_remove(w, tailNode, value, inputPosition) ==
    IF isnan(value)
    THEN IF (IF w.nodes[tailNode].type = "MAX_HEAP" THEN w.maxHeapLength
             ELSE w.minHeapLength) = 0
         THEN [window |-> [w EXCEPT !.undefined = TRUE], newValue |-> value,
               replaced |-> FALSE, removed |-> TRUE]
         ELSE IF w.nodes[tailNode].type = "MAX_HEAP"
         THEN LET lastNode == w.maxHeap[w.maxHeapLength - 1]
                  shrunk == [w EXCEPT !.maxHeapLength = @ - 1,
                                      !.maxHeap = Shrink(w.maxHeap, w.maxHeapLength - 1)]
                  moved == IF lastNode # tailNode
                           THEN StoreMaxHeapCell(
                                    [shrunk EXCEPT !.nodes[lastNode].position = inputPosition],
                                    inputPosition, lastNode)
                           ELSE shrunk
              IN  [window |-> medianwindow_put_spc_number(moved, tailNode),
                   newValue |-> IF lastNode # tailNode THEN moved.nodes[lastNode].value
                                ELSE value,
                   replaced |-> (lastNode # tailNode),
                   removed |-> TRUE]
         ELSE LET lastNode == w.minHeap[w.minHeapLength - 1]
                  shrunk == [w EXCEPT !.minHeapLength = @ - 1,
                                      !.minHeap = Shrink(w.minHeap, w.minHeapLength - 1)]
                  moved == IF lastNode # tailNode
                           THEN StoreMinHeapCell(
                                    [shrunk EXCEPT !.nodes[lastNode].position = inputPosition],
                                    inputPosition, lastNode)
                           ELSE shrunk
              IN  [window |-> medianwindow_put_spc_number(moved, tailNode),
                   newValue |-> IF lastNode # tailNode THEN moved.nodes[lastNode].value
                                ELSE value,
                   replaced |-> (lastNode # tailNode),
                   removed |-> TRUE]
    ELSE [window |-> w, newValue |-> value, replaced |-> TRUE, removed |-> FALSE]

\* lines 176-194: restore the heap order at inputPosition
UpdateOld_sift(w, tailNodeHeapType, newValue, oldValue, inputPosition) ==
    IF tailNodeHeapType = "MAX_HEAP"
    THEN IF Gt(newValue, oldValue)
         THEN IF inputPosition \in DOMAIN w.maxHeap
              THEN RebalanceIfPossible(maxheap_heapifyUp(w, inputPosition))
              ELSE [w EXCEPT !.undefined = TRUE]
         ELSE maxheap_heapifyDown(w, w.maxHeapLength, inputPosition)
    ELSE IF Lt(newValue, oldValue)
         THEN IF inputPosition \in DOMAIN w.minHeap
              THEN RebalanceIfPossible(minheap_heapifyUp(w, inputPosition))
              ELSE [w EXCEPT !.undefined = TRUE]
         ELSE minheap_heapifyDown(w, w.minHeapLength, inputPosition)

\* lines 196-202: move a root across when a removal left the sizes apart
UpdateOld_transfer(w) ==
    IF w.maxHeapLength > (w.minHeapLength + 1)
    THEN medianwindow_maxheap_root_to_minheap_root(w)
    ELSE IF w.minHeapLength > w.maxHeapLength
    THEN medianwindow_minheap_root_to_maxheap_root(w)
    ELSE w

\* lines 134-203: the expiring node holds a number
UpdateOld_number(w, tailNode, value) ==
    LET oldValue == w.nodes[tailNode].value
        inputPosition == w.nodes[tailNode].position
        tailNodeHeapType == w.nodes[tailNode].type
        bound == [w EXCEPT !.nodes[tailNode].value = value]
        r == UpdateOld_remove(bound, tailNode, value, inputPosition)
    IN  IF (~r.replaced) \/ r.window.undefined THEN r.window
        ELSE LET sifted == UpdateOld_sift(r.window, tailNodeHeapType, r.newValue,
                                          oldValue, inputPosition)
             IN  IF r.removed /\ ~sifted.undefined THEN UpdateOld_transfer(sifted)
                 ELSE sifted

\* lines 119-133: the expiring node holds a NaN, the new sample is a number
UpdateOld_spc(w, tailNode, value) ==
    LET bound == [w EXCEPT !.nodes[tailNode].value = value, !.spcNumbers = @ - 1]
    IN  RebalanceIfPossible(
            IF bound.maxHeapLength > bound.minHeapLength
            THEN minheap_heapifyUp(minheap_put(bound, tailNode), bound.minHeapLength)
            ELSE maxheap_heapifyUp(maxheap_put(bound, tailNode), bound.maxHeapLength))

\* a variant that reuses the tail node and leaves tail where it is
medianwindow_updateOld_tail_kept(w, value) ==
    LET tailNode == w.tail
        advanced == [w EXCEPT !.nodes[w.head].next = tailNode,
                              !.head = tailNode]
    IN  IF advanced.nodes[tailNode].isNaN /\ isnan(value) THEN advanced
        ELSE IF advanced.nodes[tailNode].isNaN THEN UpdateOld_spc(advanced, tailNode, value)
        ELSE UpdateOld_number(advanced, tailNode, value)

\* a faulty variant: a NaN that replaces a NaN is counted once more
medianwindow_updateOld_nan_recounted(w, value) ==
    LET tailNode == w.tail
        advanced == [w EXCEPT !.tail = w.nodes[tailNode].next,
                              !.nodes[w.head].next = tailNode,
                              !.head = tailNode]
    IN  IF advanced.nodes[tailNode].isNaN /\ isnan(value)
        THEN [advanced EXCEPT !.spcNumbers = @ + 1]
        ELSE IF advanced.nodes[tailNode].isNaN THEN UpdateOld_spc(advanced, tailNode, value)
        ELSE UpdateOld_number(advanced, tailNode, value)

medianwindow_updateOld(w, value) ==
    LET tailNode == w.tail
        advanced == [w EXCEPT !.tail = w.nodes[tailNode].next,
                              !.nodes[w.head].next = tailNode,
                              !.head = tailNode]
    IN  IF advanced.nodes[tailNode].isNaN /\ isnan(value) THEN advanced
        ELSE IF advanced.nodes[tailNode].isNaN THEN UpdateOld_spc(advanced, tailNode, value)
        ELSE UpdateOld_number(advanced, tailNode, value)

(***************************************************************************)
(* medianwindow_result: the value written to *resultDest.                  *)
(***************************************************************************)
medianwindow_result(w) ==
    IF w.ignoreNaNWindows /\ (w.spcNumbers > 0) THEN NaN
    ELSE IF (w.maxHeapLength = 0) /\ (w.spcNumbers > 0) THEN NaN
    ELSE IF w.maxHeapLength # w.minHeapLength THEN w.nodes[w.maxHeap[0]].value
    ELSE Mean(w.nodes[w.maxHeap[0]].value, w.nodes[w.minHeap[0]].value)

(***************************************************************************)
(* tiny_medianwindow.c: the median and sorting networks.                   *)
(***************************************************************************)
values_swap(values, a, b) == [values EXCEPT ![a] = values[b], ![b] = values[a]]

\* if(values[a] > values[b]) values_swap(&values[a], &values[b]);
CompareSwap(values, a, b) ==
    IF Gt(values[a], values[b]) THEN values_swap(values, a, b) ELSE values

\* the comparators of a network, in the order of the source
RECURSIVE Network(_, _)
Network(values, comparators) ==
    IF comparators = <<>> THEN values
    ELSE Network(CompareSwap(values, Head(comparators)[1], Head(comparators)[2]),
                 Tail(comparators))

median_network_2(values) ==
    Network(values,
        <<<<0, 1>>>>)

median_network_3(values) ==
    Network(values,
        <<<<0, 1>>, <<1, 2>>, <<0, 1>>>>)

\* a faulty variant of median_network_4: the comparator (1, 3) is missing
median_network_4_short(values) ==
    Network(values,
        <<<<0, 1>>, <<2, 3>>, <<0, 2>>>>)

median_network_4(values) ==
    Network(values,
        <<<<0, 1>>, <<2, 3>>, <<0, 2>>, <<1, 3>>>>)

median_network_5(values) ==
    Network(values,
        <<<<0, 1>>, <<2, 3>>, <<0, 2>>, <<1, 3>>, <<2, 4>>, <<1, 2>>, <<2, 4>>>>)

median_network_6(values) ==
    Network(values,
        <<<<0, 1>>, <<4, 5>>, <<0, 5>>, <<1, 3>>, <<2, 4>>, <<0, 2>>, <<1, 4>>,
          <<3, 5>>, <<1, 2>>, <<3, 4>>>>)

sorting_network_6(values) ==
    Network(values,
        <<<<0, 3>>, <<1, 4>>, <<2, 5>>, <<0, 2>>, <<3, 5>>, <<1, 3>>, <<2, 4>>,
          <<0, 1>>, <<2, 3>>, <<4, 5>>, <<1, 2>>, <<3, 4>>>>)

\* a faulty variant of median_network_7: the last comparator (2, 3) is missing
median_network_7_short(values) ==
    Network(values,
        <<<<0, 6>>, <<1, 2>>, <<3, 4>>, <<0, 2>>, <<1, 4>>, <<3, 5>>, <<0, 1>>,
          <<2, 5>>, <<4, 6>>, <<1, 3>>, <<2, 4>>, <<3, 4>>>>)

median_network_7(values) ==
    Network(values,
        <<<<0, 6>>, <<1, 2>>, <<3, 4>>, <<0, 2>>, <<1, 4>>, <<3, 5>>, <<0, 1>>,
          <<2, 5>>, <<4, 6>>, <<1, 3>>, <<2, 4>>, <<3, 4>>, <<2, 3>>>>)

median_network_8(values) ==
    Network(values,
        <<<<0, 2>>, <<1, 3>>, <<4, 6>>, <<5, 7>>, <<0, 4>>, <<1, 5>>, <<2, 6>>,
          <<3, 7>>, <<0, 1>>, <<2, 4>>, <<3, 5>>, <<6, 7>>, <<2, 3>>, <<4, 5>>,
          <<1, 4>>, <<3, 6>>>>)

sorting_network_8(values) ==
    Network(values,
        <<<<0, 5>>, <<1, 3>>, <<2, 7>>, <<4, 6>>, <<0, 2>>, <<1, 4>>, <<3, 6>>,
          <<5, 7>>, <<0, 1>>, <<2, 4>>, <<3, 5>>, <<6, 7>>, <<1, 3>>, <<4, 6>>,
          <<2, 3>>, <<4, 5>>, <<1, 2>>, <<3, 4>>, <<5, 6>>>>)

(***************************************************************************)
(* tiny_medianwindow.c: the window copies.  `in` is the memory at          *)
(* inputStartPtr (offset -> sample); a local array starts Indeterminate.   *)
(***************************************************************************)
Local(length) == [k \in 0..(length - 1) |-> Indeterminate]

\* for(i = 0; i < WINDOW_SIZE; i++) values[i] = *(inputStartPtr++);
CopyWindow(in, length) == [k \in 0..(length - 1) |-> in[k]]

RECURSIVE values_build_nan_free_array_loop(_, _, _, _, _, _)
values_build_nan_free_array_loop(in, length, i, outputPosition, nanCount, output) ==
    IF i < length
    THEN values_build_nan_free_array_loop(in, length, i + 1,
             IF isnan(in[i]) THEN outputPosition ELSE outputPosition + 1,
             IF isnan(in[i]) THEN nanCount + 1 ELSE nanCount,
             [output EXCEPT ![outputPosition] = in[i]])
    ELSE [output |-> output, nanCount |-> nanCount]

values_build_nan_free_array(in, length) ==
    values_build_nan_free_array_loop(in, length, 0, 0, 0, Local(length))

RECURSIVE CountInfinity(_, _)
CountInfinity(in, length) ==
    IF length = 0 THEN 0
    ELSE CountInfinity(in, length - 1) + (IF IS_INFINITY(in[length - 1]) THEN 1 ELSE 0)

values_build_nan_free_array_count_nan_inf(in, length) ==
    LET b == values_build_nan_free_array_loop(in, length, 0, 0, 0, Local(length))
    IN  [output |-> b.output, nanCount |-> b.nanCount, infCount |-> CountInfinity(in, length)]

values_build_array_handle_nan(in, length) ==
    [output |-> CopyWindow(in, length),
     nanInside |-> (\E k \in 0..(length - 1) : isnan(in[k]))]

\* a faulty variant of the padding: the sentinel is the smallest double
PaddedBelow(values, n) == [k \in 0..n |-> IF k < n THEN values[k] ELSE 0 - DBL_MAX]

\* memcpy(validValues, values, n * sizeof(double)); validValues[n] = DBL_MAX;
Padded(values, n) == [k \in 0..n |-> IF k < n THEN values[k] ELSE DBL_MAX]

(***************************************************************************)
(* tiny_medianwindow.c: sort_and_calc_median2 .. sort_and_calc_median8,    *)
(* each with its _nan_handle variant; the value is what *result receives.  *)
(***************************************************************************)
sort_and_calc_median2(in) ==
    LET values == CopyWindow(in, 2)
        nan0 == isnan(values[0])
        nan1 == isnan(values[1])
        nanCount == (IF nan0 THEN 1 ELSE 0) + (IF nan1 THEN 1 ELSE 0)
    IN  IF nanCount = 0
        THEN LET sorted == median_network_2(values) IN Mean(sorted[0], sorted[1])
        ELSE IF nanCount = 2 THEN NaN
        ELSE IF ~nan0 THEN values[0] ELSE values[1]

sort_and_calc_median2_nan_handle(in) ==
    LET values == CopyWindow(in, 2)
    IN  IF isnan(values[0]) \/ isnan(values[1]) THEN NaN
        ELSE LET sorted == median_network_2(values) IN Mean(sorted[0], sorted[1])

sort_and_calc_median3(in) ==
    LET values == CopyWindow(in, 3)
        nan0 == isnan(values[0])
        nan1 == isnan(values[1])
        nan2 == isnan(values[2])
        nanCount == (IF nan0 THEN 1 ELSE 0) + (IF nan1 THEN 1 ELSE 0) + (IF nan2 THEN 1 ELSE 0)
    IN  IF nanCount = 0
        THEN LET sorted == median_network_3(values) IN sorted[1]
        ELSE IF nanCount = 3 THEN NaN
        ELSE IF (~nan0) /\ (~nan1) THEN Mean(values[0], values[1])
        ELSE IF (~nan0) /\ (~nan2) THEN Mean(values[0], values[2])
        ELSE IF (~nan1) /\ (~nan2) THEN Mean(values[1], values[2])
        ELSE IF ~nan0 THEN values[0] ELSE IF ~nan1 THEN values[1] ELSE values[2]

sort_and_calc_median3_nan_handle(in) ==
    LET values == CopyWindow(in, 3)
    IN  IF isnan(values[0]) \/ isnan(values[1]) \/ isnan(values[2]) THEN NaN
        ELSE LET sorted == median_network_3(values) IN sorted[1]

sort_and_calc_median4(in) ==
    LET b == values_build_nan_free_array(in, 4)
        validNum == 4 - b.nanCount
    IN  IF b.nanCount = 0
        THEN LET sorted == median_network_4(b.output) IN Mean(sorted[1], sorted[2])
        ELSE IF b.nanCount = 4 THEN NaN
        ELSE IF validNum = 3
        THEN LET sorted == median_network_3(b.output) IN sorted[1]
        ELSE IF validNum = 2
        THEN LET sorted == median_network_2(b.output) IN Mean(sorted[0], sorted[1])
        ELSE b.output[0]

sort_and_calc_median4_nan_handle(in) ==
    LET values == CopyWindow(in, 4)
    IN  IF isnan(values[0]) \/ isnan(values[1]) \/ isnan(values[2]) \/ isnan(values[3])
        THEN NaN
        ELSE LET sorted == median_network_4(values) IN Mean(sorted[1], sorted[2])

\* a faulty variant of sort_and_calc_median5: the first value that is not NaN
\* is taken for the median
sort_and_calc_median5_first(in) ==
    LET b == values_build_nan_free_array_count_nan_inf(in, 5)
    IN  IF b.nanCount = 5 THEN NaN ELSE b.output[0]

\* the call as a record: result is what *result receives, network the network
\* the branch taken calls ("none" where it calls none)
sort_and_calc_median5_branch(in) ==
    LET b == values_build_nan_free_array_count_nan_inf(in, 5)
        validNum == 5 - b.nanCount
    IN  IF (b.nanCount = 0) /\ (b.infCount = 0)
        THEN LET validValues == sorting_network_6(Padded(b.output, 5))
             IN  [network |-> "sorting_network_6", result |-> validValues[2]]
        ELSE IF b.nanCount = 0
        THEN LET sorted == median_network_5(b.output)
             IN  [network |-> "median_network_5", result |-> sorted[2]]
        ELSE IF b.nanCount = 5 THEN [network |-> "none", result |-> NaN]
        ELSE IF validNum = 4
        THEN LET sorted == median_network_4(b.output)
             IN  [network |-> "median_network_4", result |-> Mean(sorted[1], sorted[2])]
        ELSE IF validNum = 3
        THEN LET sorted == median_network_3(b.output)
             IN  [network |-> "median_network_3", result |-> sorted[1]]
        ELSE IF validNum = 2
        THEN LET sorted == median_network_2(b.output)
             IN  [network |-> "median_network_2", result |-> Mean(sorted[0], sorted[1])]
        ELSE [network |-> "none", result |-> b.output[0]]

sort_and_calc_median5(in) == sort_and_calc_median5_branch(in).result

\* a faulty variant of sort_and_calc_median5_nan_handle: nanInside is not tested
sort_and_calc_median5_nan_blind(in) ==
    LET sorted == median_network_5(CopyWindow(in, 5)) IN sorted[2]

sort_and_calc_median5_nan_handle(in) ==
    LET b == values_build_array_handle_nan(in, 5)
    IN  IF b.nanInside THEN NaN
        ELSE LET sorted == median_network_5(b.output) IN sorted[2]

sort_and_calc_median6(in) ==
    LET b == values_build_nan_free_array(in, 6)
        validNum == 6 - b.nanCount
    IN  IF b.nanCount = 0
        THEN LET sorted == median_network_6(b.output) IN Mean(sorted[2], sorted[3])
        ELSE IF b.nanCount = 6 THEN NaN
        ELSE IF validNum = 5
        THEN LET sorted == median_network_5(b.output) IN sorted[2]
        ELSE IF validNum = 4
        THEN LET sorted == median_network_4(b.output) IN Mean(sorted[1], sorted[2])
        ELSE IF validNum = 3
        THEN LET sorted == median_network_3(b.output) IN sorted[1]
        ELSE IF validNum = 2
        THEN LET sorted == median_network_2(b.output) IN Mean(sorted[0], sorted[1])
        ELSE b.output[0]

sort_and_calc_median6_nan_handle(in) ==
    LET b == values_build_array_handle_nan(in, 6)
    IN  IF b.nanInside THEN NaN
        ELSE LET sorted == median_network_6(b.output) IN Mean(sorted[2], sorted[3])

sort_and_calc_median7_branch(in) ==
    LET b == values_build_nan_free_array_count_nan_inf(in, 7)
        validNum == 7 - b.nanCount
    IN  IF (b.nanCount = 0) /\ (b.infCount = 0)
        THEN LET validValues == sorting_network_8(Padded(b.output, 7))
             IN  [network |-> "sorting_network_8", result |-> validValues[3]]
        ELSE IF b.nanCount = 0
        THEN LET sorted == median_network_7(b.output)
             IN  [network |-> "median_network_7", result |-> sorted[3]]
        ELSE IF b.nanCount = 7 THEN [network |-> "none", result |-> NaN]
        ELSE IF validNum = 6
        THEN LET sorted == median_network_6(b.output)
             IN  [network |-> "median_network_6", result |-> Mean(sorted[2], sorted[3])]
        ELSE IF validNum = 5
        THEN LET sorted == median_network_5(b.output)
             IN  [network |-> "median_network_5", result |-> sorted[2]]
        ELSE IF validNum = 4
        THEN LET sorted == median_network_4(b.output)
             IN  [network |-> "median_network_4", result |-> Mean(sorted[1], sorted[2])]
        ELSE IF validNum = 3
        THEN LET sorted == median_network_3(b.output)
             IN  [network |-> "median_network_3", result |-> sorted[1]]
        ELSE IF validNum = 2
        THEN LET sorted == median_network_2(b.output)
             IN  [network |-> "median_network_2", result |-> Mean(sorted[0], sorted[1])]
        ELSE [network |-> "none", result |-> b.output[0]]

sort_and_calc_median7(in) == sort_and_calc_median7_branch(in).result

sort_and_calc_median7_nan_handle(in) ==
    LET b == values_build_array_handle_nan(in, 7)
    IN  IF b.nanInside THEN NaN
        ELSE LET sorted == median_network_7(b.output) IN sorted[3]

sort_and_calc_median8(in) ==
    LET b == values_build_nan_free_array(in, 8)
        validNum == 8 - b.nanCount
    IN  IF b.nanCount = 0
        THEN LET sorted == median_network_8(b.output) IN Mean(sorted[3], sorted[4])
        ELSE IF b.nanCount = 8 THEN NaN
        ELSE IF validNum = 7
        THEN LET sorted == median_network_7(b.output) IN sorted[3]
        ELSE IF validNum = 6
        THEN LET sorted == median_network_6(b.output) IN Mean(sorted[2], sorted[3])
        ELSE IF validNum = 5
        THEN LET sorted == median_network_5(b.output) IN sorted[2]
        ELSE IF validNum = 4
        THEN LET sorted == median_network_4(b.output) IN Mean(sorted[1], sorted[2])
        ELSE IF validNum = 3
        THEN LET sorted == median_network_3(b.output) IN sorted[1]
        ELSE IF validNum = 2
        THEN LET sorted == median_network_2(b.output) IN Mean(sorted[0], sorted[1])
        ELSE b.output[0]

sort_and_calc_median8_nan_handle(in) ==
    LET b == values_build_array_handle_nan(in, 8)
    IN  IF b.nanInside THEN NaN
        ELSE LET sorted == median_network_8(b.output) IN Mean(sorted[3], sorted[4])

(***************************************************************************)
(* tiny_medianwindow.c: the small window.                                  *)
(***************************************************************************)
\* the switch has no default: another width leaves the pointer as malloc gave it
set_sort_and_calc_function(windowSize, ignoreNaNWindows) ==
    CASE windowSize = 2 -> IF ignoreNaNWindows THEN "sort_and_calc_median2_nan_handle"
                             ELSE "sort_and_calc_median2"
      [] windowSize = 3 -> IF ignoreNaNWindows THEN "sort_and_calc_median3_nan_handle"
                             ELSE "sort_and_calc_median3"
      [] windowSize = 4 -> IF ignoreNaNWindows THEN "sort_and_calc_median4_nan_handle"
                             ELSE "sort_and_calc_median4"
      [] windowSize = 5 -> IF ignoreNaNWindows THEN "sort_and_calc_median5_nan_handle"
                             ELSE "sort_and_calc_median5"
      [] windowSize = 6 -> IF ignoreNaNWindows THEN "sort_and_calc_median6_nan_handle"
                             ELSE "sort_and_calc_median6"
      [] windowSize = 7 -> IF ignoreNaNWindows THEN "sort_and_calc_median7_nan_handle"
                             ELSE "sort_and_calc_median7"
      [] windowSize = 8 -> IF ignoreNaNWindows THEN "sort_and_calc_median8_nan_handle"
                             ELSE "sort_and_calc_median8"
      [] OTHER -> Indeterminate

tiny_medianwindow_initialize(windowSize, steps, ignoreNaNWindows) ==
    [windowSize |-> windowSize,
     steps |-> steps,
     stepDistance |-> 0,
     tailPtr |-> 0,
     headPtr |-> 0,
     sort_and_calc_median |-> set_sort_and_calc_function(windowSize, ignoreNaNWindows)]

tiny_medianwindow_move_head(w) == [w EXCEPT !.headPtr = @ + 1]

tiny_medianwindow_move_tail(w) == [w EXCEPT !.tailPtr = @ + 1]

\* window->sort_and_calc_median(in, output): the call through the function pointer
CallSortAndCalcMedian(fn, in) ==
    CASE fn = "sort_and_calc_median2" -> sort_and_calc_median2(in)
      [] fn = "sort_and_calc_median2_nan_handle" -> sort_and_calc_median2_nan_handle(in)
      [] fn = "sort_and_calc_median3" -> sort_and_calc_median3(in)
      [] fn = "sort_and_calc_median3_nan_handle" -> sort_and_calc_median3_nan_handle(in)
      [] fn = "sort_and_calc_median4" -> sort_and_calc_median4(in)
      [] fn = "sort_and_calc_median4_nan_handle" -> sort_and_calc_median4_nan_handle(in)
      [] fn = "sort_and_calc_median5" -> sort_and_calc_median5(in)
      [] fn = "sort_and_calc_median5_nan_handle" -> sort_and_calc_median5_nan_handle(in)
      [] fn = "sort_and_calc_median6" -> sort_and_calc_median6(in)
      [] fn = "sort_and_calc_median6_nan_handle" -> sort_and_calc_median6_nan_handle(in)
      [] fn = "sort_and_calc_median7" -> sort_and_calc_median7(in)
      [] fn = "sort_and_calc_median7_nan_handle" -> sort_and_calc_median7_nan_handle(in)
      [] fn = "sort_and_calc_median8" -> sort_and_calc_median8(in)
      [] fn = "sort_and_calc_median8_nan_handle" -> sort_and_calc_median8_nan_handle(in)

\* the memory at input + offset, as far as the caller's array reaches
PointerAt(input, offset) ==
    [k \in 0..(Len(input) - offset - 1) |-> input[offset + k + 1]]

tiny_medianwindow_result(w, input) ==
    CallSortAndCalcMedian(w.sort_and_calc_median, PointerAt(input, w.tailPtr))

(***************************************************************************)
(* window_helpers.c and median.c: validation and the helpers of the loops. *)
(***************************************************************************)
\* a faulty variant of valid_window: the step is not looked at
valid_window_any_step(arrayIsNull, length, windowSize, steps, resultIsNull) ==
    IF arrayIsNull \/ (length = 0) \/ resultIsNull THEN FALSE
    ELSE IF windowSize <= 1 THEN FALSE
    ELSE TRUE

valid_window(arrayIsNull, length, windowSize, steps, resultIsNull) ==
    IF arrayIsNull \/ (length = 0) \/ resultIsNull THEN FALSE
    ELSE IF (windowSize <= 1) \/ (steps = 0) THEN FALSE
    ELSE TRUE

median_window_full(w) == w.currentSize = w.windowSize

\* the value returned and the window as the call leaves it
median_window_steps_reached(w) ==
    IF w.stepDistance = 0
    THEN [reached |-> TRUE, window |-> [w EXCEPT !.stepDistance = w.steps - 1]]
    ELSE [reached |-> FALSE, window |-> [w EXCEPT !.stepDistance = @ - 1]]

tiny_medianwindow_full(w) == (w.headPtr - w.tailPtr) = w.windowSize

\* a faulty variant of tiny_medianwindow_steps_reached: the distance is
\* reset to the step rather than to the step less one
tiny_medianwindow_steps_reached_late(w) ==
    IF w.stepDistance = 0
    THEN [reached |-> TRUE, window |-> [w EXCEPT !.stepDistance = w.steps]]
    ELSE [reached |-> FALSE, window |-> [w EXCEPT !.stepDistance = @ - 1]]

tiny_medianwindow_steps_reached(w) ==
    IF w.stepDistance = 0
    THEN [reached |-> TRUE, window |-> [w EXCEPT !.stepDistance = w.steps - 1]]
    ELSE [reached |-> FALSE, window |-> [w EXCEPT !.stepDistance = @ - 1]]

(***************************************************************************)
(* medianwindow_api.c: the three entry points.                             *)
(***************************************************************************)
TINY_MEDIANWINDOW_THRESHOLD == 8

Apis == {"sliding_medianwindow", "sliding_big_window", "sliding_tiny_window"}

\* a faulty variant of Dispatch: the small engine only below the threshold
DispatchBelow(entry, windowSize) ==
    IF entry = "sliding_medianwindow"
    THEN IF windowSize < TINY_MEDIANWINDOW_THRESHOLD
         THEN "sliding_tiny_medianwindow" ELSE "sliding_heap_medianwindow"
    ELSE IF entry = "sliding_big_window" THEN "sliding_heap_medianwindow"
    ELSE "sliding_tiny_medianwindow"

\* the engine an entry point hands the call to
Dispatch(entry, windowSize) ==
    IF entry = "sliding_medianwindow"
    THEN IF windowSize <= TINY_MEDIANWINDOW_THRESHOLD
         THEN "sliding_tiny_medianwindow" ELSE "sliding_heap_medianwindow"
    ELSE IF entry = "sliding_big_window" THEN "sliding_heap_medianwindow"
    ELSE "sliding_tiny_medianwindow"

(***************************************************************************)
(* One call.                                                               *)
(*                                                                         *)
(* api, inputIsNull, length, windowSize, steps, ignoreNaNWindows and       *)
(* outputIsNull are the arguments; samples is the set the elements of the  *)
(* input are taken from.  array holds inputArray[0..i-1]: the loops read   *)
(* inputArray[i] in iteration i and never ahead of it, so the sample is    *)
(* drawn when it is read.  output is what has been stored through the      *)
(* result pointer, in the order of the stores; emittedAt records, for each *)
(* store, the loop index i that made it.                                   *)
(***************************************************************************)
VARIABLES api, inputIsNull, array, length, windowSize, steps, ignoreNaNWindows,
          outputIsNull, samples, scripted, memory, output, emittedAt, pc, i,
          window, tinyWindow, returned

vars == <<api, inputIsNull, array, length, windowSize, steps, ignoreNaNWindows,
          outputIsNull, samples, scripted, memory, output, emittedAt, pc, i,
          window, tinyWindow, returned>>

args == <<api, inputIsNull, length, windowSize, steps, ignoreNaNWindows,
          outputIsNull, samples, scripted, memory>>

\* inputs mixing NaN and numbers
Values == {NaN, 2, 4}

\* inputs of numbers only
FiniteValues == {2, 4, 6, 8}

\* inputs with both infinities
InfiniteValues == {NaN, NInf, 2, PInf}

\* the two kinds of longer inputs
LongValues == {{NaN, 2}, {2, 4}}

\* 42.5, 50 and their mean 46.25, in quarters
V42_5 == 170

V50 == 200

V46_25 == 185

\* test.c 204-210: ten NaN, 42.5 at index 5
SecondEdgeCaseTiny == [k \in 1..10 |-> IF k = 6 THEN V42_5 ELSE NaN]

\* test.c 353-357: twenty NaN, 42.5 at index 10
SecondEdgeCaseBig == [k \in 1..20 |-> IF k = 11 THEN V42_5 ELSE NaN]

\* test.c 257-264: ten NaN, then +inf, 42.5, 50, -inf at indices 3..6
ThirdEdgeCaseTiny == <<NaN, NaN, NaN, PInf, V42_5, V50, NInf, NaN, NaN, NaN>>

\* an input on which NaN replaces, one after the other, the last node of a
\* heap, the root of the other heap and the node left alone in a heap
NaNChurn == <<2, 4, 4, 6, NaN, 4, NaN, 4, NaN, NaN, 6, NaN, 6>>

\* an input on which NaN ends up stored in max_heap as if it were a number
NaNIntoHeap == <<4, 4, 2, 2, 4, 6, NaN, NaN, NaN, 2, NaN, 4, 2, NaN>>

\* an input after which the window holds numbers only and max_heap holds one
\* that is larger than a number of min_heap
OrderLost == <<2, 2, 6, 2, 4, NaN, NaN, 4, NaN, NaN, 6, 4, 2, 4, 6, 4, 2, 6>>

\* an input on which NaN expires a node tagged MIN_HEAP while min_heap is empty
LengthBelowZero == <<2, 4, 6, 6, NaN, NaN, NaN, NaN>>

\* an input on which a node pointer is stored behind the last cell of min_heap
CellBehindArray == <<2, 2, 6, 2, 4, NaN, NaN, 4, NaN, NaN, 6, 4, 2, 4, 6, 4, 2, NaN>>

\* an input on which a cell of min_heap is read that was never written
CellNeverWritten == <<2, 2, 6, 2, 4, NaN, NaN, 4, NaN, NaN, 6, 4, 2, 4, 6, 4, 2, 1>>

\* the same on a window wide enough for sliding_medianwindow to choose the
\* large engine
LengthBelowZeroWide ==
    <<2, 6, NaN, 2, NaN, 2, NaN, NaN, 2, NaN, NaN, 6, NaN, NaN, NaN, NaN, NaN, NaN,
      NaN, NaN, NaN>>

\* what a node cell holds when malloc hands out the block of an earlier
\* call: a node of its max-heap, or one of its NaN nodes
LeftoverNumber ==
    [value |-> 4, position |-> 0, next |-> 1, type |-> "MAX_HEAP", isNaN |-> FALSE]

LeftoverNaN ==
    [value |-> NaN, position |-> SPC_NUMBER_INPUT_POSITION, next |-> 0,
     type |-> "SPC_NUMBER", isNaN |-> TRUE]

Unallocated == [allocated |-> FALSE]

Engine == Dispatch(api, windowSize)

\* inputArray[i], read when the loop reaches it: the next sample of a
\* scripted input, any of samples otherwise
Drawn == IF scripted = <<>> THEN samples ELSE {scripted[i + 1]}

InitCommon ==
    /\ array = <<>>
    /\ output = <<>>
    /\ emittedAt = <<>>
    /\ pc = "call"
    /\ i = 0
    /\ window = Unallocated
    /\ tinyWindow = Unallocated
    /\ returned = "none"

\* every entry point on short inputs, valid and invalid arguments alike
InitShort ==
    /\ api \in Apis
    /\ inputIsNull \in BOOLEAN
    /\ outputIsNull \in BOOLEAN
    /\ length \in 0..MaxLen
    /\ windowSize \in 0..(MaxLen + 1)
    /\ steps \in 0..MaxStep
    /\ ignoreNaNWindows \in BOOLEAN
    /\ samples = Values
    /\ scripted = <<>>
    /\ memory = HeapNode

\* both engines on short inputs of numbers
InitFinite ==
    /\ api \in {"sliding_big_window", "sliding_tiny_window"}
    /\ inputIsNull = FALSE
    /\ outputIsNull = FALSE
    /\ length \in 2..MaxLen
    /\ windowSize \in 2..MaxLen
    /\ steps = 1
    /\ ignoreNaNWindows \in BOOLEAN
    /\ samples = FiniteValues
    /\ scripted = <<>>
    /\ memory = HeapNode

\* the dispatcher on both sides of its threshold
InitLong ==
    /\ api = "sliding_medianwindow"
    /\ inputIsNull \in BOOLEAN
    /\ outputIsNull \in BOOLEAN
    /\ length \in {0} \cup (TINY_MEDIANWINDOW_THRESHOLD..LongLen)
    /\ windowSize \in TINY_MEDIANWINDOW_THRESHOLD..LongLen
    /\ steps \in 0..MaxStep
    /\ ignoreNaNWindows \in BOOLEAN
    /\ samples \in LongValues
    /\ scripted = <<>>
    /\ memory = HeapNode

\* the widest windows of the small engine, one or two windows a call
InitWidest ==
    /\ api = "sliding_tiny_window"
    /\ inputIsNull = FALSE
    /\ outputIsNull = FALSE
    /\ windowSize \in (MaxLen + 1)..TINY_MEDIANWINDOW_THRESHOLD
    /\ length \in windowSize..TINY_MEDIANWINDOW_THRESHOLD
    /\ steps = 1
    /\ ignoreNaNWindows \in BOOLEAN
    /\ samples = Values
    /\ scripted = <<>>
    /\ memory = HeapNode

\* the widths whose tolerant functions count the infinities, one window a call
InitInfinite ==
    /\ api = "sliding_tiny_window"
    /\ inputIsNull = FALSE
    /\ outputIsNull = FALSE
    /\ windowSize \in {5, 7}
    /\ length = windowSize
    /\ steps = 1
    /\ ignoreNaNWindows \in BOOLEAN
    /\ samples = InfiniteValues
    /\ scripted = <<>>
    /\ memory = HeapNode

\* both engines on inputs of one huge value
InitHuge ==
    /\ api \in {"sliding_big_window", "sliding_tiny_window"}
    /\ inputIsNull = FALSE
    /\ outputIsNull = FALSE
    /\ windowSize \in 2..3
    /\ length \in windowSize..(windowSize + 1)
    /\ steps = 1
    /\ ignoreNaNWindows \in BOOLEAN
    /\ samples \in {{DBL_MAX}, {0 - DBL_MAX}}
    /\ scripted = <<>>
    /\ memory = HeapNode

\* both engines on short inputs with both infinities, NaN ignored
InitInfinities ==
    /\ api \in {"sliding_big_window", "sliding_tiny_window"}
    /\ inputIsNull = FALSE
    /\ outputIsNull = FALSE
    /\ windowSize \in 2..(MaxLen - 1)
    /\ length \in windowSize..(MaxLen - 1)
    /\ steps = 1
    /\ ignoreNaNWindows = FALSE
    /\ samples = {NaN, NInf, 2, 4, PInf}
    /\ scripted = <<>>
    /\ memory = HeapNode

\* the large engine on a narrow window that slides several times, NaN ignored
InitDeep ==
    /\ api = "sliding_big_window"
    /\ inputIsNull = FALSE
    /\ outputIsNull = FALSE
    /\ windowSize = 4
    /\ length = MaxLen + 1
    /\ steps = 1
    /\ ignoreNaNWindows = FALSE
    /\ samples = {NaN, 2, 4, 6}
    /\ scripted = <<>>
    /\ memory = HeapNode

\* the inputs of the edge-case tests, through every entry point
InitScripted ==
    /\ inputIsNull = FALSE
    /\ outputIsNull = FALSE
    /\ \/ /\ api \in Apis
          /\ scripted \in {SecondEdgeCaseTiny, ThirdEdgeCaseTiny}
          /\ windowSize = 5
       \/ /\ api \in {"sliding_medianwindow", "sliding_big_window"}
          /\ scripted = SecondEdgeCaseBig
          /\ windowSize = 10
    /\ length = Len(scripted)
    /\ steps = 1
    /\ ignoreNaNWindows \in BOOLEAN
    /\ samples = {}
    /\ memory = HeapNode

\* the large engine on inputs in which NaN comes and goes
InitChurn ==
    /\ inputIsNull = FALSE
    /\ outputIsNull = FALSE
    /\ \/ /\ api = "sliding_big_window"
          /\ scripted \in {NaNChurn, NaNIntoHeap, LengthBelowZero}
          /\ windowSize = 4
       \/ /\ api = "sliding_big_window"
          /\ scripted \in {OrderLost, CellBehindArray, CellNeverWritten}
          /\ windowSize = 5
       \/ /\ api = "sliding_medianwindow"
          /\ scripted = LengthBelowZeroWide
          /\ windowSize = TINY_MEDIANWINDOW_THRESHOLD + 1
    /\ length = Len(scripted)
    /\ steps = 1
    /\ ignoreNaNWindows \in BOOLEAN
    /\ samples = {}
    /\ memory = HeapNode

Init ==
    InitCommon /\ (InitShort \/ InitFinite \/ InitLong \/ InitWidest \/ InitInfinite
                      \/ InitHuge \/ InitInfinities \/ InitDeep \/ InitChurn
                      \/ InitScripted)

\* median.c 11-12 and 47-48: validation fails
Reject ==
    /\ pc = "call"
    /\ ~valid_window(inputIsNull, length, windowSize, steps, outputIsNull)
    /\ pc' = "done"
    /\ returned' = "false"
    /\ UNCHANGED <<args, array, output, emittedAt, i, window, tinyWindow>>

\* a faulty variant of AllocationFails: the NULL block is not reported
AllocationFailsUnreported ==
    /\ pc = "call"
    /\ valid_window(inputIsNull, length, windowSize, steps, outputIsNull)
    /\ pc' = "done"
    /\ returned' = "true"
    /\ UNCHANGED <<args, array, output, emittedAt, i, window, tinyWindow>>

\* median.c 15-17 and 50-52: malloc returns NULL
AllocationFails ==
    /\ pc = "call"
    /\ valid_window(inputIsNull, length, windowSize, steps, outputIsNull)
    /\ pc' = "done"
    /\ returned' = "false"
    /\ UNCHANGED <<args, array, output, emittedAt, i, window, tinyWindow>>

\* median.c 14-21 and 50-56: the window is allocated and initialized
\* (median.c calls the initializers without the policy flag their definitions
\* take; the flag the entry point was given is what reaches them)
Allocate ==
    /\ pc = "call"
    /\ valid_window(inputIsNull, length, windowSize, steps, outputIsNull)
    /\ IF Engine = "sliding_heap_medianwindow"
       THEN /\ window' = medianwindow_initialize(memory, windowSize, steps,
                                                      ignoreNaNWindows)
            /\ tinyWindow' = tinyWindow
       ELSE /\ tinyWindow' = tiny_medianwindow_initialize(windowSize, steps, ignoreNaNWindows)
            /\ window' = window
    /\ pc' = "loop"
    /\ UNCHANGED <<args, array, output, emittedAt, i, returned>>

\* median.c 23-36: the body of the loop of sliding_heap_medianwindow
HeapIterationBody(w, sample) ==
    IF median_window_full(w)
    THEN LET r == median_window_steps_reached(
                      medianwindow_updateOld([w EXCEPT !.rebalanced = <<>>], sample))
         IN  [window |-> r.window, emit |-> r.reached]
    ELSE LET added == medianwindow_addNew([w EXCEPT !.rebalanced = <<>>], sample)
         IN  [window |-> added, emit |-> median_window_full(added)]

sliding_heap_medianwindow ==
    /\ pc = "loop"
    /\ Engine = "sliding_heap_medianwindow"
    /\ i < length
    /\ \E sample \in Drawn :
         \E inOrder \in {HeapIterationBody(window, sample)} :
           \* the first swap of a node with itself shows which store is last
           \E lastStore \in (IF inOrder.window.emptyRebalance /\ ~window.emptyRebalance
                              THEN {"MAX_HEAP", "MIN_HEAP"}
                              ELSE {window.aliasedStore}) :
             \E r \in {IF lastStore = window.aliasedStore THEN inOrder
                        ELSE HeapIterationBody([window EXCEPT !.aliasedStore = lastStore],
                                               sample)} :
               /\ array' = Append(array, sample)
               /\ window' = r.window
               /\ IF r.window.undefined \/ r.window.outside
                  THEN /\ pc' = "undefined"
                       /\ UNCHANGED <<output, emittedAt>>
                  ELSE /\ pc' = pc
                       /\ output' = IF r.emit
                                    THEN Append(output, medianwindow_result(r.window))
                                    ELSE output
                       /\ emittedAt' = IF r.emit THEN Append(emittedAt, i) ELSE emittedAt
    /\ i' = i + 1
    /\ UNCHANGED <<args, tinyWindow, returned>>

\* median.c 58-66: the body of the loop of sliding_tiny_medianwindow
TinyIterationBody(w) ==
    LET moved == tiny_medianwindow_move_head(
                     IF tiny_medianwindow_full(w) THEN tiny_medianwindow_move_tail(w) ELSE w)
    IN  IF tiny_medianwindow_full(moved)
        THEN LET r == tiny_medianwindow_steps_reached(moved)
             IN  [window |-> r.window, emit |-> r.reached]
        ELSE [window |-> moved, emit |-> FALSE]

sliding_tiny_medianwindow ==
    /\ pc = "loop"
    /\ Engine = "sliding_tiny_medianwindow"
    /\ i < length
    /\ \E sample \in Drawn :
           LET r == TinyIterationBody(tinyWindow)
               input == Append(array, sample)
           IN  /\ array' = input
               /\ tinyWindow' = r.window
               /\ output' = IF r.emit
                            THEN Append(output, tiny_medianwindow_result(r.window, input))
                            ELSE output
               /\ emittedAt' = IF r.emit THEN Append(emittedAt, i) ELSE emittedAt
    /\ i' = i + 1
    /\ UNCHANGED <<args, pc, window, returned>>

\* a faulty variant of LoopReturn: the function reports failure after its loop
LoopReturnFalse == "false"

\* the value of `return true;` at median.c 41 and 71
LoopReturn == "true"

\* median.c 38-41 and 68-71: the loop is over, the window is freed
Return ==
    /\ pc = "loop"
    /\ i = length
    /\ pc' = "done"
    /\ returned' = LoopReturn
    /\ UNCHANGED <<args, array, output, emittedAt, i, window, tinyWindow>>

Next ==
    \/ Reject
    \/ AllocationFails
    \/ Allocate
    \/ sliding_heap_medianwindow
    \/ sliding_tiny_medianwindow
    \/ Return

Spec == Init /\ [][Next]_vars

\* a call whose block was used by an earlier call: the large engine forced on
\* short inputs, the dispatcher on both sides of its threshold
InitReuse ==
    /\ InitCommon
    /\ inputIsNull \in BOOLEAN
    /\ outputIsNull = FALSE
    /\ \/ /\ api = "sliding_big_window"
          /\ windowSize \in 2..(MaxLen - 2)
          /\ length \in 0..(MaxLen - 1)
          /\ samples = Values
       \/ /\ api = "sliding_medianwindow"
          /\ windowSize \in TINY_MEDIANWINDOW_THRESHOLD..(TINY_MEDIANWINDOW_THRESHOLD + 1)
          /\ length \in {0} \cup (TINY_MEDIANWINDOW_THRESHOLD..LongLen)
          /\ samples \in LongValues
    /\ steps \in 1..MaxStep
    /\ ignoreNaNWindows \in BOOLEAN
    /\ scripted = <<>>
    /\ memory \in {LeftoverNumber, LeftoverNaN}

SpecReuse == InitReuse /\ [][Next]_vars

(***************************************************************************)
(* The two loops of median.c as functions of the input.                    *)
(***************************************************************************)
\* median.c 22-36 from index k - 1 on; out is what outputArray holds so far
RECURSIVE HeapLoop(_, _, _, _)
HeapLoop(w, input, k, out) ==
    IF k > Len(input) THEN out
    ELSE LET r == HeapIterationBody(w, input[k])
         IN  IF r.window.undefined \/ r.window.outside THEN out
             ELSE HeapLoop(r.window, input, k + 1,
                           IF r.emit THEN Append(out, medianwindow_result(r.window))
                           ELSE out)

\* median.c 57-66 from index k - 1 on
RECURSIVE TinyLoop(_, _, _, _)
TinyLoop(w, input, k, out) ==
    IF k > Len(input) THEN out
    ELSE LET r == TinyIterationBody(w)
         IN  TinyLoop(r.window, input, k + 1,
                      IF r.emit
                      THEN Append(out, tiny_medianwindow_result(r.window, SubSeq(input, 1, k)))
                      ELSE out)

\* what sliding_heap_medianwindow writes for a valid call on a block holding mem
HeapOutputs(mem, input, W, S, ignore) ==
    HeapLoop(medianwindow_initialize(mem, W, S, ignore), input, 1, <<>>)

\* what sliding_tiny_medianwindow writes for a valid call
TinyOutputs(input, W, S, ignore) ==
    TinyLoop(tiny_medianwindow_initialize(W, S, ignore), input, 1, <<>>)

\* what a valid call of an entry point writes
CallOutputs(entry, mem, input, W, S, ignore) ==
    IF Dispatch(entry, W) = "sliding_heap_medianwindow"
    THEN HeapOutputs(mem, input, W, S, ignore)
    ELSE TinyOutputs(input, W, S, ignore)

(***************************************************************************)
(* The terms of the statements below.                                      *)
(***************************************************************************)
\* inputArray[from .. from + n - 1]
Slice(input, from, n) == SubSeq(input, from + 1, from + n)

\* the window width's most recent samples of the input read so far
MostRecent == Slice(array, Len(array) - windowSize, windowSize)

NonNaN(s) == SelectSeq(s, LAMBDA v : ~isnan(v))

HasNaN(s) == \E k \in 1..Len(s) : isnan(s[k])

\* ascending order of a sequence without NaN, by selection
RECURSIVE Sorted(_)
Sorted(s) ==
    IF s = <<>> THEN <<>>
    ELSE LET m == CHOOSE k \in 1..Len(s) : \A j \in 1..Len(s) : s[k] <= s[j]
         IN  <<s[m]>> \o Sorted(SubSeq(s, 1, m - 1) \o SubSeq(s, m + 1, Len(s)))

\* the middle element of the sorted values, the mean of the two middle ones
\* for an even count, NaN for no value at all
SortAndSelect(s) ==
    LET t == Sorted(s)
        n == Len(t)
    IN  IF n = 0 THEN NaN
        ELSE IF (n % 2) = 1 THEN t[(n + 1) \div 2]
        ELSE Mean(t[n \div 2], t[(n \div 2) + 1])

\* floor((N - W) / S) + 1
ExpectedWindows == ((length - windowSize) \div steps) + 1

HeapWindowFull ==
    /\ pc = "loop"
    /\ Engine = "sliding_heap_medianwindow"
    /\ median_window_full(window)

(***************************************************************************)
(* Validation.                                                             *)
(***************************************************************************)
\* C1: a call with a null input pointer, a length of 0, a null output
\* pointer, a window width of at most 1 or a step of 0 returns false, whatever
\* the engine and the NaN policy.
C1_InvalidArgumentsReturnFalse ==
    (/\ pc = "done"
     /\ \/ inputIsNull
        \/ length = 0
        \/ outputIsNull
        \/ windowSize <= 1
        \/ steps = 0)
    => (returned = "false")

\* a step of 0 is the only fault of a call the dispatcher hands to the heap engine
C1_Witness ==
    /\ pc = "done"
    /\ returned = "false"
    /\ api = "sliding_medianwindow"
    /\ Engine = "sliding_heap_medianwindow"
    /\ ~inputIsNull /\ ~outputIsNull
    /\ windowSize <= length
    /\ steps = 0

\* C2: as the statement has it, a call whose window is wider than the input
\* (all other arguments valid) returns false, for widths up to 8 and above.
C2_WiderThanInputReturnsFalse ==
    (/\ pc = "done"
     /\ api = "sliding_medianwindow"
     /\ ~inputIsNull /\ ~outputIsNull
     /\ length > 0
     /\ windowSize >= 2
     /\ steps >= 1
     /\ windowSize > length)
    => (returned = "false")

\* the same for the heap engine alone
C2_WiderThanInputReturnsFalseHeap ==
    (Engine = "sliding_heap_medianwindow") => C2_WiderThanInputReturnsFalse

\* the same for the small engine alone
C2_WiderThanInputReturnsFalseTiny ==
    (Engine = "sliding_tiny_medianwindow") => C2_WiderThanInputReturnsFalse

(***************************************************************************)
(* The number of outputs and the samples they are emitted at.              *)
(***************************************************************************)
ValidCall ==
    /\ ~inputIsNull /\ ~outputIsNull
    /\ 2 <= windowSize
    /\ windowSize <= length
    /\ steps >= 1

\* C3: as the statement has it, a valid call of sliding_medianwindow that
\* returns true has written exactly floor((N-W)/S)+1 outputs, with either engine.
C3_OutputLength ==
    (/\ pc = "done"
     /\ api = "sliding_medianwindow"
     /\ ValidCall
     /\ returned = "true")
    => (Len(output) = ExpectedWindows)

\* the small engine's part of C3
C3_OutputLengthTiny ==
    (Engine = "sliding_tiny_medianwindow") => C3_OutputLength

\* C4: as the statement has it, the heap engine with a width of 9 or more
\* emits first right after sample W-1 and then every S samples: the k-th
\* output is emitted at sample W-1+(k-1)*S.
C4_HeapEmissionPositions ==
    (/\ Engine = "sliding_heap_medianwindow"
     /\ windowSize > TINY_MEDIANWINDOW_THRESHOLD)
    => \A k \in 1..Len(emittedAt) :
           emittedAt[k] = (windowSize - 1) + ((k - 1) * steps)

\* what the heap engine does instead: the second output follows the first
\* at once, and only from there on are the outputs S samples apart
C4_HeapEmissionPositionsObserved ==
    (/\ Engine = "sliding_heap_medianwindow"
     /\ pc \in {"loop", "done"})
    => \A k \in 1..Len(emittedAt) :
           emittedAt[k] = IF k = 1 THEN windowSize - 1
                          ELSE windowSize + ((k - 2) * steps)

(***************************************************************************)
(* The medians of the heap engine.                                         *)
(***************************************************************************)
AllFinite(s) == \A k \in 1..Len(s) : ~isnan(s[k]) /\ ~IS_INFINITY(s[k])

\* C5: on an input of finite numbers, whenever the heap window is full (W
\* samples through medianwindow_addNew, any number through
\* medianwindow_updateOld), medianwindow_result is the sort-and-select median
\* of the W most recent samples.
C5_HeapMedianOfFiniteInput ==
    (HeapWindowFull /\ AllFinite(array))
    => (medianwindow_result(window) = SortAndSelect(MostRecent))

\* an even window of at least three different numbers after two replacements
C5_Witness ==
    /\ HeapWindowFull
    /\ AllFinite(array)
    /\ windowSize = 4
    /\ Len(array) >= windowSize + 2
    /\ Cardinality({MostRecent[k] : k \in 1..windowSize}) >= 3
    /\ medianwindow_result(window) = 5

\* C6: as the statement has it, under the tolerant policy the result of a
\* full heap window is the sort-and-select median of the samples other than
\* NaN among the W most recent ones, NaN when there is none.
C6_TolerantHeapMedian ==
    (HeapWindowFull /\ ~ignoreNaNWindows)
    => (medianwindow_result(window) = SortAndSelect(NonNaN(MostRecent)))

\* the same for the widths the dispatcher gives to the heap engine
C6_TolerantHeapMedianDispatched ==
    (api = "sliding_medianwindow") => C6_TolerantHeapMedian

(***************************************************************************)
(* The strict policy.                                                      *)
(***************************************************************************)
StrictMedian(s) == IF HasNaN(s) THEN NaN ELSE SortAndSelect(s)

\* the window of the k-th output: inputArray[(k-1)*S .. (k-1)*S + W - 1]
WindowOfOutput(k) == Slice(array, (k - 1) * steps, windowSize)

\* the W samples that end with the one the k-th output was emitted at
WindowAtEmission(k) == Slice(array, emittedAt[k] - (windowSize - 1), windowSize)

\* C7: as the statement has it, under the strict policy every output of a
\* valid call is NaN when its window holds a NaN and is the sort-and-select
\* median of its window otherwise, with either engine.
C7_StrictOutputs ==
    (/\ pc = "done"
     /\ returned = "true"
     /\ ValidCall
     /\ ignoreNaNWindows)
    => \A k \in 1..Len(output) :
           ((((k - 1) * steps) + windowSize) <= length)
           => (output[k] = StrictMedian(WindowOfOutput(k)))

\* the small engine's part of C7
C7_StrictOutputsTiny ==
    (Engine = "sliding_tiny_medianwindow") => C7_StrictOutputs

\* what the heap engine keeps of C7: the strict median of the W samples read
\* last when the output was emitted
C7_StrictOutputsAtEmission ==
    (pc \in {"loop", "done"} /\ ignoreNaNWindows)
    => \A k \in 1..Len(output) : output[k] = StrictMedian(WindowAtEmission(k))

(***************************************************************************)
(* The small engine.                                                       *)
(***************************************************************************)
\* NaN for no value, the value for one, the median for more
TolerantMedian(s) ==
    LET v == NonNaN(s)
    IN  IF Len(v) = 0 THEN NaN
        ELSE IF Len(v) = 1 THEN v[1]
        ELSE SortAndSelect(v)

TinyEmitted ==
    /\ pc \in {"loop", "done"}
    /\ tinyWindow # Unallocated
    /\ Engine = "sliding_tiny_medianwindow"
    /\ windowSize \in 2..TINY_MEDIANWINDOW_THRESHOLD

\* C8: under the tolerant policy every output of the small engine, for the
\* widths 2 to 8, is NaN when its window holds no value other than NaN, that
\* value when it holds one, and the median of those values otherwise.
C8_TolerantTinyMedian ==
    (TinyEmitted /\ ~ignoreNaNWindows)
    => \A k \in 1..Len(output) : output[k] = TolerantMedian(WindowAtEmission(k))

\* a window of 8 with four NaN and both numbers: the mean of the two middle values
C8_Witness ==
    /\ TinyEmitted /\ ~ignoreNaNWindows
    /\ windowSize = TINY_MEDIANWINDOW_THRESHOLD
    /\ Len(output) >= 1
    /\ Len(NonNaN(WindowAtEmission(1))) = 4
    /\ output[1] = 3

\* C9: the small engine emits first at sample W-1 and then every S samples,
\* each output is what the window's function makes of the W samples ending
\* there, and the window carries nothing but its cursors and step counter
\* (beside what initialization fixed).
C9_TinyEmissions ==
    TinyEmitted
    => /\ \A k \in 1..Len(emittedAt) :
              /\ emittedAt[k] = (windowSize - 1) + ((k - 1) * steps)
              /\ output[k] = CallSortAndCalcMedian(
                                 set_sort_and_calc_function(windowSize, ignoreNaNWindows),
                                 PointerAt(WindowAtEmission(k), 0))
       /\ Len(output) = Len(emittedAt)
       /\ [tinyWindow EXCEPT !.headPtr = 0, !.tailPtr = 0, !.stepDistance = 0]
              = tiny_medianwindow_initialize(windowSize, steps, ignoreNaNWindows)

\* three outputs two samples apart whose windows differ
C9_Witness ==
    /\ TinyEmitted
    /\ steps = 2
    /\ Len(output) = 3
    /\ emittedAt = <<windowSize - 1, windowSize + 1, windowSize + 3>>
    /\ output[1] # output[2]
    /\ output[2] # output[3]

(***************************************************************************)
(* Failure leaves the output alone.                                        *)
(***************************************************************************)
\* C10: whenever a call returns false, nothing has been stored through the
\* output pointer.
C10_FalseLeavesOutputUntouched ==
    (returned = "false") => (output = <<>>)

\* a valid call that fails for want of memory
C10_Witness ==
    /\ returned = "false"
    /\ api = "sliding_medianwindow"
    /\ ValidCall
    /\ output = <<>>

\* C11: for every window size from 2 to 8, every input, every step and either
\* policy, a finished call of the small engine has written exactly what the
\* large engine forced on the same arguments writes: as many outputs, and the
\* same value at every index.
C11_StrategyAgreement ==
    ( /\ api = "sliding_tiny_window"
      /\ pc = "done"
      /\ returned = "true"
      /\ windowSize \in 2..TINY_MEDIANWINDOW_THRESHOLD )
    => output = HeapOutputs(HeapNode, array, windowSize, steps, ignoreNaNWindows)

\* C11, what the code does keep: with step 1 and an input without NaN the
\* two engines agree.
C11_StrategyAgreementObserved ==
    ( /\ api = "sliding_tiny_window"
      /\ pc = "done"
      /\ returned = "true"
      /\ windowSize \in 2..TINY_MEDIANWINDOW_THRESHOLD
      /\ steps = 1
      /\ ~HasNaN(array) )
    => output = HeapOutputs(HeapNode, array, windowSize, steps, ignoreNaNWindows)

\* the input read so far is one finite value repeated
ConstantInput ==
    /\ array # <<>>
    /\ ~isnan(array[1])
    /\ ~IS_INFINITY(array[1])
    /\ \A k \in 1..Len(array) : array[k] = array[1]

\* C12: when every sample of the input is the same finite value v, every
\* median either engine emits is exactly v, for every valid window size and
\* step and under either policy.
C12_ConstantInputMedian ==
    ConstantInput => \A k \in 1..Len(output) : output[k] = array[1]

\* C12, what the code does keep: the medians are v when v + v does not
\* overflow.
C12_ConstantInputMedianObserved ==
    (ConstantInput /\ array[1] < DBL_MAX /\ array[1] > 0 - DBL_MAX)
    => \A k \in 1..Len(output) : output[k] = array[1]

(***************************************************************************)
(* The infinities.                                                         *)
(***************************************************************************)
IsNumber(v) == ~isnan(v) /\ ~IS_INFINITY(v)

\* what the statement of the infinities asks of a window, TRUE for a window it
\* does not speak of: t is the window's values other than NaN in ascending
\* order, +infinity last and -infinity first
InfinityOrdered(s, median) ==
    LET t == Sorted(NonNaN(s))
    IN  /\ (Len(t) = 2 /\ IsNumber(t[1]) /\ t[2] = PInf) => (median = PInf)
        /\ (Len(t) = 3 /\ IsNumber(t[1]) /\ IsNumber(t[2]) /\ t[3] = PInf)
           => (median = t[2])
        /\ (Len(t) = 4 /\ t[1] = NInf /\ IsNumber(t[2]) /\ IsNumber(t[3]) /\ t[4] = PInf)
           => (median = Mean(t[2], t[3]))

\* C13: under the tolerant policy, in both engines, a window whose values
\* other than NaN are +infinity and a number x emits +infinity, one with
\* +infinity and two numbers emits the larger number, and one with both
\* infinities and two numbers x, y emits (x + y) / 2.
C13_InfinitiesOrdered ==
    (pc \in {"loop", "done"} /\ ~ignoreNaNWindows)
    => \A k \in 1..Len(output) : InfinityOrdered(WindowAtEmission(k), output[k])

\* C13 for the small engine alone
C13_InfinitiesOrderedTiny ==
    (TinyEmitted /\ ~ignoreNaNWindows)
    => \A k \in 1..Len(output) : InfinityOrdered(WindowAtEmission(k), output[k])

(***************************************************************************)
(* Windows of NaN, and the scenarios of the edge-case tests.               *)
(***************************************************************************)
\* NaN for a window of NaN only, v for a window whose only value is v, TRUE
\* for the other windows
LoneValue(s, median) ==
    LET v == NonNaN(s)
    IN  /\ (Len(v) = 0) => (median = NaN)
        /\ (Len(v) = 1) => (median = v[1])

\* C14: under the tolerant policy, in both engines, a window of W NaN emits
\* NaN and a window whose only value other than NaN is v emits v.
C14_LoneValue ==
    (pc \in {"loop", "done"} /\ ~ignoreNaNWindows)
    => \A k \in 1..Len(output) : LoneValue(WindowAtEmission(k), output[k])

\* C14 for the small engine alone
C14_LoneValueTiny ==
    (TinyEmitted /\ ~ignoreNaNWindows)
    => \A k \in 1..Len(output) : LoneValue(WindowAtEmission(k), output[k])

\* C14, the example of the statement: twenty NaN with 42.5 at index 10, W = 10,
\* S = 1, NaN ignored, gives NaN and then 42.5 ten times.
C14_LoneValueExample ==
    (pc = "done" /\ returned = "true" /\ scripted = SecondEdgeCaseBig
     /\ ~ignoreNaNWindows)
    => output = [k \in 1..11 |-> IF k = 1 THEN NaN ELSE V42_5]

\* C15: as the statement has it, the input of ten NaN with 42.5 at index 5,
\* W = 5 and S = 1, gives 42.5 six times when NaN is ignored and NaN six times
\* under the strict policy.
C15_Scenario3 ==
    (pc = "done" /\ returned = "true" /\ scripted = SecondEdgeCaseTiny)
    => output = [k \in 1..6 |-> IF ignoreNaNWindows THEN NaN ELSE V42_5]

\* C15, amended: the first window is NaN only, so the outputs with NaN
\* ignored are NaN and then 42.5 five times; under the strict policy they are
\* NaN six times.
C15_Scenario3Amended ==
    (pc = "done" /\ returned = "true" /\ scripted = SecondEdgeCaseTiny)
    => output = [k \in 1..6 |-> IF ignoreNaNWindows \/ k = 1 THEN NaN ELSE V42_5]

\* the scenario has run to its end through the dispatcher, NaN ignored
C15_Witness ==
    /\ pc = "done"
    /\ returned = "true"
    /\ api = "sliding_medianwindow"
    /\ array = SecondEdgeCaseTiny
    /\ windowSize = 5
    /\ steps = 1
    /\ ~ignoreNaNWindows
    /\ Len(output) = 6

\* C16: as the statement has it, the input NaN, NaN, NaN, +inf, 42.5, 50,
\* -inf, NaN, NaN, NaN with W = 5, S = 1 and NaN ignored gives +inf, 50 and
\* 46.25 for the windows 0, 1 and 2 and NaN for the windows 3, 4 and 5.
C16_Scenario4 ==
    (pc = "done" /\ returned = "true" /\ scripted = ThirdEdgeCaseTiny
     /\ ~ignoreNaNWindows)
    => output = <<PInf, V50, V46_25, NaN, NaN, NaN>>

\* C16, amended: the windows 3, 4 and 5 still hold values, and their outputs
\* are 46.25 (of +inf, 42.5, 50, -inf), 42.5 (of 42.5, 50, -inf) and -inf (the
\* mean of 50 and -inf).
C16_Scenario4Amended ==
    (pc = "done" /\ returned = "true" /\ scripted = ThirdEdgeCaseTiny
     /\ ~ignoreNaNWindows)
    => output = <<PInf, V50, V46_25, V46_25, V42_5, NInf>>

\* the scenario has run to its end through the dispatcher
C16_Witness ==
    /\ pc = "done"
    /\ returned = "true"
    /\ api = "sliding_medianwindow"
    /\ array = ThirdEdgeCaseTiny
    /\ windowSize = 5
    /\ steps = 1
    /\ ~ignoreNaNWindows
    /\ Len(output) = 6
    /\ output[6] = NInf

C18_AllocationFailure ==
    (/\ pc \in {"done", "undefined"}
     /\ valid_window(inputIsNull, length, windowSize, steps, outputIsNull))
    => \/ /\ returned = "false"
          /\ window = Unallocated
          /\ tinyWindow = Unallocated
          /\ i = 0
          /\ output = <<>>
          /\ emittedAt = <<>>
       \/ /\ returned = "true"
          /\ (window # Unallocated) \/ (tinyWindow # Unallocated)
          /\ i = length

\* C18, what the code does keep: a call that comes to its return statement
\* ends in one of the two ways.
C18_AllocationFailureObserved ==
    (pc = "done" /\ valid_window(inputIsNull, length, windowSize, steps, outputIsNull))
    => \/ /\ returned = "false"
          /\ window = Unallocated
          /\ tinyWindow = Unallocated
          /\ i = 0
          /\ output = <<>>
          /\ emittedAt = <<>>
       \/ /\ returned = "true"
          /\ (window # Unallocated) \/ (tinyWindow # Unallocated)
          /\ i = length

\* malloc has failed in a valid call
C18_Witness ==
    /\ pc = "done"
    /\ valid_window(inputIsNull, length, windowSize, steps, outputIsNull)
    /\ returned = "false"
    /\ length > windowSize

\* C19: a call of sliding_medianwindow that got its window runs the small
\* engine exactly when W <= 8 and the large engine exactly when W >= 9,
\* whatever the length, the step and the policy.
C19_DispatchByWidth ==
    (api = "sliding_medianwindow" /\ pc \in {"loop", "done"} /\ returned # "false")
    => /\ (tinyWindow # Unallocated) <=> (windowSize <= 8)
       /\ (window # Unallocated) <=> (windowSize >= 9)

\* the widest window of the small engine, through the dispatcher, has emitted
C19_Witness ==
    /\ api = "sliding_medianwindow"
    /\ pc = "loop"
    /\ windowSize = 8
    /\ length > 8
    /\ steps = MaxStep
    /\ tinyWindow # Unallocated
    /\ window = Unallocated
    /\ output # <<>>

(***************************************************************************)
(* The sizes of the two heaps.                                             *)
(***************************************************************************)
HeapWindowLive ==
    /\ pc \in {"loop", "done"}
    /\ Engine = "sliding_heap_medianwindow"
    /\ window # Unallocated

\* C20: in the large engine, after every medianwindow_addNew and every
\* medianwindow_updateOld, whatever the mix of numbers and NaN, the max-heap
\* holds as many nodes as the min-heap or one more.
C20_HeapSizeBalance ==
    HeapWindowLive => (window.maxHeapLength - window.minHeapLength) \in {0, 1}

\* C20, what the code does keep: the sizes are balanced as long as no NaN
\* has been fed.
C20_HeapSizeBalanceObserved ==
    (HeapWindowLive /\ ~HasNaN(array))
    => (window.maxHeapLength - window.minHeapLength) \in {0, 1}

(***************************************************************************)
(* The structure of the large engine's window.                             *)
(***************************************************************************)
\* the nodes the live cells of the two heaps refer to
MaxHeapNodes == {window.maxHeap[j] : j \in 0..(window.maxHeapLength - 1)}

MinHeapNodes == {window.minHeap[j] : j \in 0..(window.minHeapLength - 1)}

\* the nodes that hold a sample
ResidentNodes == 0..(window.currentSize - 1)

\* C21: in the large engine, after every medianwindow_addNew and
\* medianwindow_updateOld, every value in the max-heap is at most every value
\* in the min-heap.
C21_CrossHeapOrder ==
    HeapWindowLive
    => \A a \in MaxHeapNodes : \A b \in MinHeapNodes :
           Le(window.nodes[a].value, window.nodes[b].value)

\* C21 for the numbers of the two heaps only: no number of max_heap is larger
\* than a number of min_heap.
C21_CrossHeapOrderOfNumbers ==
    HeapWindowLive
    => \A a \in MaxHeapNodes : \A b \in MinHeapNodes :
           (IsNumber(window.nodes[a].value) /\ IsNumber(window.nodes[b].value))
           => Le(window.nodes[a].value, window.nodes[b].value)

\* C21, what the code does keep: the order holds as long as no NaN has been
\* fed.
C21_CrossHeapOrderObserved ==
    (HeapWindowLive /\ ~HasNaN(array))
    => \A a \in MaxHeapNodes : \A b \in MinHeapNodes :
           Le(window.nodes[a].value, window.nodes[b].value)

\* C22: after every medianwindow_addNew and medianwindow_updateOld the node
\* in the live cell i of a heap has position i, in both heaps.
C22_PositionBackPointers ==
    HeapWindowLive
    => /\ \A j \in 0..(window.maxHeapLength - 1) :
              window.nodes[window.maxHeap[j]].position = j
       /\ \A j \in 0..(window.minHeapLength - 1) :
              window.nodes[window.minHeap[j]].position = j

\* C22, what the code does keep: the positions are right as long as no NaN
\* has been fed.
C22_PositionBackPointersObserved ==
    (HeapWindowLive /\ ~HasNaN(array))
    => /\ \A j \in 0..(window.maxHeapLength - 1) :
              window.nodes[window.maxHeap[j]].position = j
       /\ \A j \in 0..(window.minHeapLength - 1) :
              window.nodes[window.minHeap[j]].position = j

\* C23: after every medianwindow_addNew and medianwindow_updateOld every
\* resident node is in exactly one of max_heap, min_heap and the NaN side-set,
\* and its type tag says which: MAX_HEAP iff a live cell of max_heap refers to
\* it, MIN_HEAP iff a live cell of min_heap does, SPC_NUMBER with isNaN set iff
\* its value is NaN and it is in neither heap.
C23_HeapKindTags ==
    HeapWindowLive
    => \A n \in ResidentNodes :
           LET node == window.nodes[n]
               inMax == n \in MaxHeapNodes
               inMin == n \in MinHeapNodes
           IN  /\ ~(inMax /\ inMin)
               /\ inMax \/ inMin \/ (node.value = NaN)
               /\ (node.type = "MAX_HEAP") <=> inMax
               /\ (node.type = "MIN_HEAP") <=> inMin
               /\ ((node.type = "SPC_NUMBER") /\ (node.isNaN = TRUE))
                      <=> ((node.value = NaN) /\ ~inMax /\ ~inMin)

\* C23, what the code does keep: the tags are right as long as heaps_rebalance
\* has not run on an empty heap.
C23_HeapKindTagsObserved ==
    (HeapWindowLive /\ ~window.emptyRebalance)
    => \A n \in ResidentNodes :
           LET node == window.nodes[n]
               inMax == n \in MaxHeapNodes
               inMin == n \in MinHeapNodes
           IN  /\ ~(inMax /\ inMin)
               /\ inMax \/ inMin \/ (node.value = NaN)
               /\ (node.type = "MAX_HEAP") <=> inMax
               /\ (node.type = "MIN_HEAP") <=> inMin
               /\ ((node.type = "SPC_NUMBER") /\ (node.isNaN = TRUE))
                      <=> ((node.value = NaN) /\ ~inMax /\ ~inMin)

\* a step of the large engine has ended and its window can be looked at: the
\* call goes on, or it stops after a store behind a pointer array
HeapWindowStepped ==
    \/ HeapWindowLive
    \/ /\ pc = "undefined"
       /\ Engine = "sliding_heap_medianwindow"
       /\ window.outside
       /\ ~window.undefined

\* C24: in the large engine max_heap, min_heap and the NaN side together
\* account for every resident sample: maxHeapLength + minHeapLength +
\* spcNumbers is currentSize after every medianwindow_addNew and windowSize
\* after every medianwindow_updateOld.
C24_Occupancy ==
    HeapWindowStepped
    => /\ window.maxHeapLength + window.minHeapLength + window.spcNumbers
              = window.currentSize
       /\ (i > windowSize)
              => (window.maxHeapLength + window.minHeapLength + window.spcNumbers
                     = windowSize)

\* C24 is exercised: the window has slid, NaN came and went, heaps_rebalance
\* has run on an empty heap, and numbers and NaN are resident together.
C24_Witness ==
    /\ HeapWindowStepped
    /\ i > windowSize
    /\ window.emptyRebalance
    /\ window.spcNumbers > 0
    /\ window.maxHeapLength > 0
    /\ window.minHeapLength > 0

\* the samples the window covers once i samples have been read, oldest first
WindowSamples == [k \in 1..windowSize |-> array[i - windowSize + k]]

\* how many of the arena's nodes hold v, and how many of the covered samples
\* are v
NodesHolding(v) == Cardinality({n \in 0..(windowSize - 1) : window.nodes[n].value = v})

SamplesEqual(v) == Cardinality({k \in 1..windowSize : WindowSamples[k] = v})

\* C25: in the large engine, once the window is full, the values held by the
\* W arena nodes are, as a multiset, the last W samples read (NaN counted as
\* NaN), and tail is the node of the oldest of them, the one the next
\* medianwindow_updateOld replaces.
C25_WindowContent ==
    (HeapWindowStepped /\ (i >= windowSize))
    => /\ \A v \in {window.nodes[n].value : n \in 0..(windowSize - 1)}
                  \cup {WindowSamples[k] : k \in 1..windowSize} :
              NodesHolding(v) = SamplesEqual(v)
       /\ window.nodes[window.tail].value = WindowSamples[1]

\* C25, what the code does keep: the content is right as long as no pointer
\* has been stored behind a pointer array.
C25_WindowContentObserved ==
    (HeapWindowLive /\ (i >= windowSize))
    => /\ \A v \in {window.nodes[n].value : n \in 0..(windowSize - 1)}
                  \cup {WindowSamples[k] : k \in 1..windowSize} :
              NodesHolding(v) = SamplesEqual(v)
       /\ window.nodes[window.tail].value = WindowSamples[1]

\* the k nodes met from node n on by following next, NULL once the walk has
\* left the arena
RECURSIVE FifoFrom(_, _)
FifoFrom(n, k) ==
    IF k = 1 THEN <<n>>
    ELSE <<n>> \o FifoFrom(IF n \in 0..(windowSize - 1) THEN window.nodes[n].next
                           ELSE NULL,
                           k - 1)

\* C26: once the window is full, following next from tail visits each of the
\* W arena nodes exactly once, in the order in which their samples arrived
\* (tail is the node of the oldest sample, head that of the newest), and ends
\* at head.  A node is recognised by the sample it holds; nodes[0] is not
\* asked for its sample once a pointer has been stored over its value.
C26_FifoOverlay ==
    (HeapWindowStepped /\ (i >= windowSize))
    => LET walk == FifoFrom(window.tail, windowSize)
       IN  /\ \A k \in 1..windowSize :
                  /\ walk[k] \in 0..(windowSize - 1)
                  /\ \/ window.outside /\ (walk[k] = 0)
                     \/ window.nodes[walk[k]].value = array[i - windowSize + k]
           /\ \A k, l \in 1..windowSize : (walk[k] = walk[l]) => (k = l)
           /\ walk[windowSize] = window.head

\* C26 is exercised: the window has slid further than its own width over
\* samples that differ from their neighbours, so every node has been reused
\* and the walk starts in the middle of the arena.
C26_Witness ==
    /\ HeapWindowLive
    /\ windowSize >= 3
    /\ i > 2 * windowSize
    /\ window.tail # 0
    /\ \A k \in 1..(windowSize - 1) : WindowSamples[k] # WindowSamples[k + 1]
    /\ LET walk == FifoFrom(window.tail, windowSize)
       IN  \A k \in 1..windowSize :
               /\ walk[k] \in 0..(windowSize - 1)
               /\ window.nodes[walk[k]].value = WindowSamples[k]

\* C27: in the large engine, after every medianwindow_addNew and
\* medianwindow_updateOld, spcNumbers is the number of NaN among the samples
\* the window covers, and a node has isNaN set exactly when the sample it
\* holds is NaN.
C27_NaNCount ==
    HeapWindowLive
    => /\ window.spcNumbers
              = Cardinality({k \in (i - window.currentSize + 1)..i : isnan(array[k])})
       /\ \A n \in ResidentNodes :
              (window.nodes[n].isNaN = TRUE) <=> isnan(window.nodes[n].value)

\* C27, what the code does keep: the count and the flags are right as long as
\* heaps_rebalance has not run on an empty heap.
C27_NaNCountObserved ==
    (HeapWindowLive /\ ~window.emptyRebalance)
    => /\ window.spcNumbers
              = Cardinality({k \in (i - window.currentSize + 1)..i : isnan(array[k])})
       /\ \A n \in ResidentNodes :
              (window.nodes[n].isNaN = TRUE) <=> isnan(window.nodes[n].value)

\* C28: for every input, maxHeapLength never exceeds the ceil(W/2) cells and
\* minHeapLength never exceeds the floor(W/2) cells that
\* medianwindow_initialize reserves, and no heap cell is written outside the
\* two arrays.
C28_HeapCapacity ==
    ((Engine = "sliding_heap_medianwindow") /\ (window # Unallocated))
    => /\ window.maxHeapLength <= MaxHeapCapacity(windowSize)
       /\ window.minHeapLength <= MinHeapCapacity(windowSize)
       /\ ~window.outside

\* C28, what the code does keep: the two lengths stay within the reserved
\* cells up to the step that decrements a length of 0.
C28_HeapLengthsObserved ==
    ((Engine = "sliding_heap_medianwindow") /\ (window # Unallocated)
        /\ ~window.undefined)
    => /\ window.maxHeapLength <= MaxHeapCapacity(windowSize)
       /\ window.minHeapLength <= MinHeapCapacity(windowSize)

\* C29: for every valid (N, W, S) with W >= 9, sliding_heap_medianwindow
\* writes no output element at an index of floor((N - W) / S) + 1 or above:
\* it stays within a caller buffer of the documented size.
C29_HeapOutputBound ==
    (/\ Engine = "sliding_heap_medianwindow"
     /\ windowSize > TINY_MEDIANWINDOW_THRESHOLD
     /\ windowSize <= length
     /\ ~inputIsNull
     /\ ~outputIsNull
     /\ steps >= 1)
    => Len(output) <= ExpectedWindows

\* C29, what the code does keep: with steps = 1 the large engine writes
\* N - W + 1 elements and no more.
C29_HeapOutputBoundObserved ==
    (/\ Engine = "sliding_heap_medianwindow"
     /\ windowSize > TINY_MEDIANWINDOW_THRESHOLD
     /\ windowSize <= length
     /\ ~inputIsNull
     /\ ~outputIsNull
     /\ steps = 1)
    => Len(output) <= ExpectedWindows

\* C30: heaps_rebalance only ever runs while max_heap and min_heap both hold
\* a node, so it never reads a heap cell at or beyond the heap's length.
C30_RebalanceOnNonEmptyHeaps ==
    ((Engine = "sliding_heap_medianwindow") /\ (window # Unallocated))
    => ~window.emptyRebalance

\* C30, what the code does keep: as long as no NaN has been fed, heaps_rebalance
\* runs on two non-empty heaps.
C30_RebalanceOnNonEmptyHeapsObserved ==
    ((Engine = "sliding_heap_medianwindow") /\ (window # Unallocated)
        /\ ~HasNaN(array))
    => ~window.emptyRebalance

(***************************************************************************)
(* The order inside each heap.                                             *)
(***************************************************************************)
\* every live cell but the root of max_heap holds at most what its parent
\* holds, and every live cell but the root of min_heap at least that
HeapOrdered(w) ==
    /\ \A j \in 1..(w.maxHeapLength - 1) :
           Le(w.nodes[w.maxHeap[j]].value,
              w.nodes[w.maxHeap[HEAP_PARENT_FORMULAR(j)]].value)
    /\ \A j \in 1..(w.minHeapLength - 1) :
           Ge(w.nodes[w.minHeap[j]].value,
              w.nodes[w.minHeap[HEAP_PARENT_FORMULAR(j)]].value)

\* the root of max_heap holds the largest value of max_heap and the root of
\* min_heap the smallest value of min_heap
RootsExtreme(w) ==
    /\ \A j \in 0..(w.maxHeapLength - 1) :
           Le(w.nodes[w.maxHeap[j]].value, w.nodes[w.maxHeap[0]].value)
    /\ \A j \in 0..(w.minHeapLength - 1) :
           Ge(w.nodes[w.minHeap[j]].value, w.nodes[w.minHeap[0]].value)

\* C31: after every medianwindow_addNew and medianwindow_updateOld every node
\* of max_heap holds at most what its parent at (i-1)/8 holds and every node
\* of min_heap at least what its parent holds, so that max_heap[0] is the
\* largest value of max_heap and min_heap[0] the smallest of min_heap.
C31_HeapOrder ==
    HeapWindowLive => (HeapOrdered(window) /\ RootsExtreme(window))

\* C31, what the code does keep: the order inside each heap holds as long as
\* no NaN has been fed.
C31_HeapOrderObserved ==
    (HeapWindowLive /\ ~HasNaN(array))
    => (HeapOrdered(window) /\ RootsExtreme(window))

(***************************************************************************)
(* medianwindow_updateOld, case by case.                                   *)
(***************************************************************************)
\* the nodes the live cells of the heaps of w refer to
LiveMaxHeapNodes(w) == {w.maxHeap[j] : j \in 0..(w.maxHeapLength - 1)}

LiveMinHeapNodes(w) == {w.minHeap[j] : j \in 0..(w.minHeapLength - 1)}

\* a step of the large engine in which medianwindow_updateOld is called with
\* sample and returns
UpdateOldReturns(sample) ==
    /\ pc = "loop"
    /\ Engine = "sliding_heap_medianwindow"
    /\ window # Unallocated
    /\ median_window_full(window)
    /\ array' = Append(array, sample)
    /\ ~window'.undefined

\* the window of a call with NaN as lines 143-171 leave it, before line 196
\* looks at the sizes
BeforeRootTransfer(w) ==
    LET tailNode == w.tail
        advanced == [w EXCEPT !.tail = w.nodes[tailNode].next,
                              !.nodes[w.head].next = tailNode,
                              !.head = tailNode,
                              !.nodes[tailNode].value = NaN]
    IN  UpdateOld_remove(advanced, tailNode, NaN, w.nodes[tailNode].position).window

\* what the text says of a number that NaN replaces
NumberLeavesItsHeap ==
    LET tailNode == window.tail
        before == BeforeRootTransfer(window)
    IN  /\ tailNode \notin LiveMaxHeapNodes(window')
        /\ tailNode \notin LiveMinHeapNodes(window')
        /\ \/ /\ tailNode \in LiveMaxHeapNodes(window)
              /\ before.maxHeapLength = window.maxHeapLength - 1
              /\ before.minHeapLength = window.minHeapLength
           \/ /\ tailNode \in LiveMinHeapNodes(window)
              /\ before.minHeapLength = window.minHeapLength - 1
              /\ before.maxHeapLength = window.maxHeapLength
        /\ window'.spcNumbers = window.spcNumbers + 1
        /\ \A n \in (DOMAIN window.nodes) \ {tailNode} :
               window'.nodes[n].value = window.nodes[n].value

\* C32: when medianwindow_updateOld is called with NaN while the expiring
\* node holds a number, then on return no heap refers to that node, the heap
\* it was in has exactly one element fewer before any root transfer,
\* spcNumbers has grown by exactly one and every other node holds the value
\* it held.
C32_NumberReplacedByNaN ==
    [][(UpdateOldReturns(NaN) /\ ~isnan(window.nodes[window.tail].value))
       => NumberLeavesItsHeap]_vars

\* C32, what the code does keep: all of it, as long as heaps_rebalance has
\* not run on an empty heap.
C32_NumberReplacedByNaNObserved ==
    [][(UpdateOldReturns(NaN) /\ ~isnan(window.nodes[window.tail].value)
           /\ ~window.emptyRebalance)
       => NumberLeavesItsHeap]_vars

\* C33: when medianwindow_updateOld is called with NaN while the expiring
\* node is a NaN node, the cells, the lengths and the positions of both heaps
\* and spcNumbers stay as they are, as do the value, the tag and the flag of
\* every node; only tail and head advance.
C33_NaNReplacedByNaN ==
    [][(UpdateOldReturns(NaN) /\ (window.nodes[window.tail].isNaN = TRUE))
       => /\ window'.maxHeap = window.maxHeap
          /\ window'.minHeap = window.minHeap
          /\ window'.maxHeapLength = window.maxHeapLength
          /\ window'.minHeapLength = window.minHeapLength
          /\ window'.spcNumbers = window.spcNumbers
          /\ window'.currentSize = window.currentSize
          /\ \A n \in DOMAIN window.nodes :
                 /\ window'.nodes[n].position = window.nodes[n].position
                 /\ window'.nodes[n].value = window.nodes[n].value
                 /\ window'.nodes[n].type = window.nodes[n].type
                 /\ window'.nodes[n].isNaN = window.nodes[n].isNaN
          /\ window'.tail = window.nodes[window.tail].next
          /\ window'.head = window.tail]_vars

\* C33 is exercised: a NaN has just replaced the NaN that was fed windowSize
\* samples earlier, in a window whose two heaps hold numbers.
C33_Witness ==
    /\ HeapWindowLive
    /\ Len(array) > windowSize
    /\ isnan(array[Len(array)])
    /\ isnan(array[Len(array) - windowSize])
    /\ window.nodes[window.head].isNaN = TRUE
    /\ window.maxHeapLength > 0
    /\ window.minHeapLength > 0
    /\ window.spcNumbers > 1

(***************************************************************************)
(* heaps_rebalance, call by call.                                          *)
(***************************************************************************)
\* the call c left each root cell referring to the other heap's root, and
\* each of the two nodes with the other heap's tag
Exchanged(c) ==
    /\ c.maxHeapCell = c.found.minHeapRoot
    /\ c.minHeapCell = c.found.maxHeapRoot
    /\ c.minTypeLeft = "MAX_HEAP"
    /\ c.maxTypeLeft = "MIN_HEAP"

\* the call c left the root cells and the tags of the two roots as they were
Untouched(c) ==
    /\ c.maxHeapCell = c.found.maxHeapRoot
    /\ c.minHeapCell = c.found.minHeapRoot
    /\ c.maxTypeLeft = c.found.maxType
    /\ c.minTypeLeft = c.found.minType

\* C34: heaps_rebalance exchanges the two root references and flips the tags
\* of the two roots if and only if the value of max_heap[0] is strictly
\* greater than the value of min_heap[0]; when the two values are equal no
\* node changes heap.
C34_RebalanceWhenGreater ==
    HeapWindowStepped
    => \A k \in DOMAIN window.rebalanced :
           LET c == window.rebalanced[k]
           IN  /\ Exchanged(c) <=> Gt(c.found.maxValue, c.found.minValue)
               /\ (c.found.maxValue = c.found.minValue) => Untouched(c)

\* C34, what the code does: two different roots are exchanged unless the value
\* of max_heap[0] is strictly less than the value of min_heap[0], and are
\* left alone when it is.
C34_RebalanceUnlessLess ==
    HeapWindowStepped
    => \A k \in DOMAIN window.rebalanced :
           LET c == window.rebalanced[k]
           IN  (c.found.maxHeapRoot # c.found.minHeapRoot)
               => /\ Exchanged(c) <=> ~Lt(c.found.maxValue, c.found.minValue)
                  /\ Lt(c.found.maxValue, c.found.minValue) => Untouched(c)

(***************************************************************************)
(* The networks of tiny_medianwindow.c and the functions that choose among *)
(* them, as functions of one window.  array is the window a caller hands   *)
(* over; output is the local array as a network leaves it, or the one      *)
(* value a sort_and_calc_median function stores through result.            *)
(***************************************************************************)
\* numbers and infinities; every window of a width up to the threshold over
\* these is drawn
NetworkValues == {NInf, 2, 4, PInf}

\* the memory at a pointer to the first sample of the sequence s
AsMemory(s) == [k \in 0..(Len(s) - 1) |-> s[k + 1]]

\* the first n cells of a local array, in their order
AsSequence(values, n) == [k \in 1..n |-> values[k - 1]]

\* median_network_<n>(values)
median_network(n, values) ==
    CASE n = 2 -> median_network_2(values)
      [] n = 3 -> median_network_3(values)
      [] n = 4 -> median_network_4(values)
      [] n = 5 -> median_network_5(values)
      [] n = 6 -> median_network_6(values)
      [] n = 7 -> median_network_7(values)
      [] n = 8 -> median_network_8(values)

\* what a window handed to sort_and_calc_median5 or 7 can hold: NaN, the
\* infinities, numbers, and the largest double, which is also the sentinel
WindowValues == {NaN, NInf, 2, 4, DBL_MAX, PInf}

InitNetworks ==
    /\ \/ /\ api = "median_network"
          /\ windowSize \in 2..TINY_MEDIANWINDOW_THRESHOLD
          /\ samples = NetworkValues
       \/ /\ api = "sort_and_calc_median"
          /\ windowSize \in {5, 7}
          /\ samples = WindowValues
    /\ array \in [1..windowSize -> samples]
    /\ length = windowSize
    /\ inputIsNull = FALSE
    /\ outputIsNull = FALSE
    /\ steps = 1
    /\ ignoreNaNWindows = FALSE
    /\ scripted = <<>>
    /\ memory = HeapNode
    /\ output = <<>>
    /\ emittedAt = <<>>
    /\ pc = "call"
    /\ i = 0
    /\ window = Unallocated
    /\ tinyWindow = Unallocated
    /\ returned = "none"

\* one call of median_network_<windowSize> on a copy of the window
RunMedianNetwork ==
    /\ pc = "call"
    /\ api = "median_network"
    /\ output' = AsSequence(median_network(windowSize,
                                           CopyWindow(AsMemory(array), windowSize)),
                            windowSize)
    /\ pc' = "done"
    /\ UNCHANGED <<args, array, emittedAt, i, window, tinyWindow, returned>>

\* one call, through the pointer set_sort_and_calc_function has set, of the
\* function for this width and policy
RunSortAndCalcMedian ==
    /\ pc = "call"
    /\ api = "sort_and_calc_median"
    /\ output' = <<CallSortAndCalcMedian(
                       set_sort_and_calc_function(windowSize, ignoreNaNWindows),
                       AsMemory(array))>>
    /\ pc' = "done"
    /\ UNCHANGED <<args, array, emittedAt, i, window, tinyWindow, returned>>

NextNetworks ==
    \/ RunMedianNetwork
    \/ RunSortAndCalcMedian

SpecNetworks == InitNetworks /\ [][NextNetworks]_vars

\* how often v occurs in the sequence s
Occurrences(s, v) == Cardinality({k \in 1..Len(s) : s[k] = v})

\* the positions (counted from 0) at which the network of width n is said to
\* leave the middle order statistics
MedianPositions(n) == IF (n % 2) = 1 THEN {n \div 2} ELSE {(n \div 2) - 1, n \div 2}

\* C35: for every n in 2..8 and every array of n values that are not NaN
\* (numbers and infinities, duplicates allowed), median_network_n leaves a
\* permutation of the array whose median position (a[1], a[2], a[3] for n =
\* 3, 5, 7) holds the middle order statistic, and whose two median positions
\* ({a[0],a[1]}, {a[1],a[2]}, {a[2],a[3]}, {a[3],a[4]} for n = 2, 4, 6, 8)
\* hold the two middle order statistics.
C35_MedianNetworks ==
    (api = "median_network" /\ pc = "done")
    => LET n == windowSize
           sorted == Sorted(array)
       IN  /\ Len(output) = n
           /\ \A v \in NetworkValues : Occurrences(output, v) = Occurrences(array, v)
           /\ \A v \in NetworkValues :
                  Cardinality({p \in MedianPositions(n) : output[p + 1] = v})
                      = Cardinality({p \in MedianPositions(n) : sorted[p + 1] = v})

\* C35 is exercised: the widest network has run on a window with both
\* infinities and a repeated number that was not in order, and has moved its
\* two middle values into place.
C35_Witness ==
    /\ api = "median_network"
    /\ pc = "done"
    /\ windowSize = TINY_MEDIANWINDOW_THRESHOLD
    /\ Occurrences(array, PInf) = 1
    /\ Occurrences(array, NInf) = 1
    /\ Occurrences(array, 2) > 1
    /\ array[4] = PInf
    /\ array[5] = NInf
    /\ output[4] = 2
    /\ output[5] = 4

\* the branch sort_and_calc_median5 or 7 takes on the window in array
BranchTaken ==
    IF windowSize = 5 THEN sort_and_calc_median5_branch(AsMemory(array))
    ELSE sort_and_calc_median7_branch(AsMemory(array))

\* the sorting network of the padded path, the median network of the width
PaddedNetwork == IF windowSize = 5 THEN "sorting_network_6" ELSE "sorting_network_8"

MedianNetworkNames ==
    {"median_network_2", "median_network_3", "median_network_4", "median_network_5",
     "median_network_6", "median_network_7"}

\* values[W div 2] after median_network_W on a copy of the window
UnpaddedMedian ==
    median_network(windowSize, CopyWindow(AsMemory(array), windowSize))[windowSize \div 2]

\* C36: under the tolerant policy, for W = 5 and W = 7, the padded path (a
\* sentinel appended, sorting_network_6 or 8, the result at index 2 or 3) is
\* taken only for a window without NaN and without an infinity, for every
\* such window it gives the value median_network_5 or 7 gives on the unpadded
\* window, and a window with a value that is not finite goes through a
\* median network and never through the sorting network (one with fewer
\* than two values besides NaN needs no network).
C36_PaddedNetworks ==
    (api = "sort_and_calc_median" /\ pc = "done")
    => /\ output = <<BranchTaken.result>>
       /\ (BranchTaken.network = PaddedNetwork) => AllFinite(array)
       /\ AllFinite(array)
              => /\ BranchTaken.network = PaddedNetwork
                 /\ output[1] = UnpaddedMedian
       /\ (~AllFinite(array))
              => \/ BranchTaken.network \in MedianNetworkNames
                 \/ /\ BranchTaken.network = "none"
                    /\ Len(NonNaN(array)) < 2

\* C36 is exercised: a window of 7 finite values, the largest double among
\* them, out of order, has gone through the padded path.
C36_Witness ==
    /\ api = "sort_and_calc_median"
    /\ pc = "done"
    /\ windowSize = 7
    /\ AllFinite(array)
    /\ array[1] = DBL_MAX
    /\ array[2] = DBL_MAX
    /\ array[3] = 4
    /\ array[7] = 2
    /\ Occurrences(array, 2) = 3
    /\ output = <<4>>

(***************************************************************************)
(* Termination.                                                            *)
(***************************************************************************)
\* the call has fed inputArray[0..i-1], each sample once and in the order of
\* its index, whatever the step
FedInOrder ==
    /\ Len(array) = i
    /\ i <= length
    /\ (scripted # <<>>) => (array = SubSeq(scripted, 1, i))

\* one pass of a sift-up loop moves to a smaller position that is not below
\* 0, one pass of a sift-down loop to a larger one: over the positions of a
\* heap of three levels, and over the live cells of the window's heaps
SiftLoopsProgress ==
    /\ \A position \in 1..(K_ARY_HEAP_CHILDREN * (K_ARY_HEAP_CHILDREN + 1)) :
           HEAP_PARENT_FORMULAR(position) \in 0..(position - 1)
    /\ \A position \in 0..K_ARY_HEAP_CHILDREN : \A num_child \in 1..K_ARY_HEAP_CHILDREN :
           HEAP_CHILDREN_FORMULAR(position, num_child) > position
    /\ HeapWindowLive
           => /\ \A position \in 0..(window.maxHeapLength - 1) :
                     LET target == maxheap_largestChild(window, window.maxHeapLength,
                                                        position)
                     IN  (target = position)
                         \/ (target \in (position + 1)..(window.maxHeapLength - 1))
              /\ \A position \in 0..(window.minHeapLength - 1) :
                     LET target == minheap_smallestChild(window, window.minHeapLength,
                                                         position)
                     IN  (target = position)
                         \/ (target \in (position + 1)..(window.minHeapLength - 1))

\* the call has stopped short of its return statement: it has indexed a
\* pointer array below its first cell or read a cell never written
StoppedShort == (pc = "undefined") /\ (window # Unallocated) /\ window.undefined

\* C37: for every valid argument set a call of sliding_medianwindow runs to
\* completion, feeding each of the N samples through the window exactly once
\* in the order of the indices whatever S is, and every sift-up and sift-down
\* loop terminates (the position strictly decreases toward 0, respectively
\* strictly increases until no child is better).
C37_Termination ==
    (api = "sliding_medianwindow" /\ ValidCall)
    => /\ ~StoppedShort
       /\ FedInOrder
       /\ (pc = "done" /\ returned = "true") => (i = length)
       /\ SiftLoopsProgress

\* C37, what the code does keep: a call on an input without NaN runs to its
\* return, and so does each of its loops.
C37_TerminationObserved ==
    (api = "sliding_medianwindow" /\ ValidCall /\ ~HasNaN(array))
    => /\ pc # "undefined"
       /\ FedInOrder
       /\ (pc = "done" /\ returned = "true") => (i = length)
       /\ SiftLoopsProgress
====
